---------------------------- MODULE Spec2Model ----------------------------
(***************************************************************************)
(* Model of the MIME -> MML interpreter of djmaze/core                     *)
(* (email-tpl/src/mml/interpreter.rs).                                     *)
(*                                                                         *)
(* A Rust String is a sequence of tokens.  A token is one character of     *)
(* message content (" ", "\n", "\r", "a", ...) or one literal fragment of  *)
(* a format!() template ("<#part type=", "<#/part>", ...); the string is   *)
(* the concatenation of its tokens.  Message content holds a template      *)
(* fragment in MarkupLeaf only; in every other message a marker token of   *)
(* an output was put there by the interpreter.  A MIME type string         *)
(* "text/plain" is the pair <<"text", "plain">>, printed as the tokens     *)
(* "text", "/", "plain".                                                   *)
(***************************************************************************)
EXTENDS Integers, Sequences, FiniteSets, TLC

VARIABLES
    interp,     \* the Interpreter being customized (builder pattern)
    msg,        \* the parsed mail_parser::Message handed to interpret_msg
    fs,         \* the file system: path -> bytes of every file written
    result,     \* what interpret_msg returned (Ok(tpl) or Err(..))
    log,        \* ghost: one entry per leaf renderer call of the last run
    pc,         \* "new" while the builder runs, "done" after interpret_msg
    world,      \* how the file system and the pgp commands behave (see Envs)
    show_headers, \* MimeInterpreter.show_headers
    calls,      \* the interpret_msg calls running concurrently on interp
    retry,      \* the run of one IMAP operation under the retry! macro
    range       \* the arguments and the result of build_page_range

vars == <<interp, msg, fs, result, log, pc, world, show_headers, calls, retry, range>>

---------------------------------------------------------------------------
(* Bounds of the model.                                                    *)

\* Largest number of parts (leaves and containers) of a generated message.
MaxParts == 3

---------------------------------------------------------------------------
(* str helpers (std).                                                      *)

\* char::is_whitespace, for the characters of the model's alphabet.
IsWhitespace(c) == c \in {" ", "\n", "\r", "\t"}

\* str::trim_end
TrimEnd(s) ==
    LET keep == {i \in 1..Len(s) : ~IsWhitespace(s[i])}
    IN  IF keep = {} THEN <<>>
        ELSE SubSeq(s, 1, CHOOSE i \in keep : \A j \in keep : j <= i)

\* str::trim
Trim(s) ==
    LET keep == {i \in 1..Len(s) : ~IsWhitespace(s[i])}
    IN  IF keep = {} THEN <<>>
        ELSE SubSeq(s, CHOOSE i \in keep : \A j \in keep : i <= j,
                       CHOOSE i \in keep : \A j \in keep : j <= i)

\* str::replace("\r", "")
RemoveCR(s) == SelectSeq(s, LAMBDA c : c # "\r")

\* Whether pat occurs in s at position i.
MatchAt(s, pat, i) ==
    /\ i >= 1
    /\ i + Len(pat) - 1 <= Len(s)
    /\ \A k \in 1..Len(pat) : s[i + k - 1] = pat[k]

\* str::rsplit_once(pat).map(|(body, _)| body).unwrap_or(s)
RSplitOnceBody(s, pat) ==
    LET hits == {i \in 1..Len(s) : MatchAt(s, pat, i)}
    IN  IF hits = {} THEN s
        ELSE SubSeq(s, 1, (CHOOSE i \in hits : \A j \in hits : j <= i) - 1)

\* The signature delimiter "-- \n".
SignatureDelim == <<"-", "-", " ", "\n">>

\* nanohtml2text::html2text on the model's alphabet: tags are dropped, the
\* entity "&lt;" is decoded, everything else is kept.
html2text(html) ==
    LET NoTags == SelectSeq(html, LAMBDA c : c \notin {"<b>", "</b>"})
    IN  [i \in 1..Len(NoTags) |-> IF NoTags[i] = "&lt;" THEN "<" ELSE NoTags[i]]

\* Option<T>: <<>> is None, <<x>> is Some(x).
None == <<>>
Some(x) == <<x>>
UnwrapOr(opt, d) == IF opt = None THEN d ELSE opt[1]
OrOpt(a, b) == IF a = None THEN b ELSE a

---------------------------------------------------------------------------
(* FilterParts.                                                            *)

FilterAll == [kind |-> "All", ctypes |-> {}]
FilterOnlyOf(t) == [kind |-> "Only", ctypes |-> {t}]
FilterInclude(ts) == [kind |-> "Include", ctypes |-> ts]
FilterExclude(ts) == [kind |-> "Exclude", ctypes |-> ts]

\* FilterParts::only gone wrong: a type of an Include list counts as the sole
\* focus.
FilterPartsOnlyOrIncluded(f, ctype) ==
    f.kind \in {"Only", "Include"} /\ ctype \in f.ctypes

\* FilterParts::only
FilterPartsOnly(f, ctype) ==
    CASE f.kind = "All"     -> FALSE
      [] f.kind = "Only"    -> f.ctypes = {ctype}
      [] f.kind = "Include" -> FALSE
      [] f.kind = "Exclude" -> FALSE

\* FilterParts::contains
FilterPartsContains(f, ctype) ==
    CASE f.kind = "All"     -> TRUE
      [] f.kind = "Only"    -> f.ctypes = {ctype}
      [] f.kind = "Include" -> ctype \in f.ctypes
      [] f.kind = "Exclude" -> ctype \notin f.ctypes

---------------------------------------------------------------------------
(* MIME types and parts.                                                   *)

TextPlain == <<"text", "plain">>
TextHtml == <<"text", "html">>
TextJson == <<"text", "json">>
OctetStream == <<"application", "octet-stream">>
ImagePng == <<"image", "png">>
MessageRfc822 == <<"message", "rfc822">>
MultipartMixed == <<"multipart", "mixed">>
MultipartRelated == <<"multipart", "related">>
MultipartAlternative == <<"multipart", "alternative">>
MultipartEncrypted == <<"multipart", "encrypted">>
MultipartSigned == <<"multipart", "signed">>
PgpEncrypted == <<"application", "pgp-encrypted">>
PgpSignature == <<"application", "pgp-signature">>

\* The tokens of a MIME type string.
CtypeStr(ctype) == <<ctype[1], "/", ctype[2]>>

\* get_ctype: content_type is <<>> (no Content-Type), <<type>> (no subtype)
\* or <<type, subtype>>.
get_ctype(part) ==
    IF Len(part.content_type) = 2 THEN part.content_type ELSE OctetStream

\* is_plain
is_plain(part) == get_ctype(part) = TextPlain

\* Message::part(id): ids count from 0.
MsgPart(m, id) ==
    IF id + 1 \in DOMAIN m.parts THEN Some(m.parts[id + 1]) ELSE None

EmptyMsg == [parts |-> <<>>]

---------------------------------------------------------------------------
(* Results.  Result<String> plus what the call did to the file system and  *)
(* the ghost log; "panic" is the abort of an unwrap() or of an index out   *)
(* of bounds, which is no Result at all.                                   *)

NoPath == <<>>

Ok(tpl, st) ==
    [ok |-> TRUE, tpl |-> tpl, err |-> "", path |-> NoPath,
     fs |-> st.fs, log |-> st.log]

Err(kind, path, st) ==
    [ok |-> FALSE, tpl |-> <<>>, err |-> kind, path |-> path,
     fs |-> st.fs, log |-> st.log]

\* The state a call leaves to the code that runs after it.
After(r) == [fs |-> r.fs, log |-> r.log]

\* Ghost: a leaf renderer was called on part, returned tpl and wrote the
\* file at path wrote (NoPath: none).
Logged(st, part, tpl, wrote) ==
    [st EXCEPT !.log = Append(@, [part |-> part, tpl |-> tpl, wrote |-> wrote])]

\* fs::write(path, data): creates or truncates the file.
FsWrite(files, path, data) ==
    [p \in DOMAIN files \cup {path} |-> IF p = path THEN data ELSE files[p]]

\* Path::is_absolute, for the names of the model.
IsAbsolute(name) == name \in {"/abs"}

\* PathBuf::join: an absolute name replaces the directory.
PathJoin(dir, name) == IF IsAbsolute(name) THEN <<name>> ELSE <<dir, "/", name>>

---------------------------------------------------------------------------
(* Leaf renderers.                                                         *)

\* The marker line of an attachment.
AttachmentTpl(ctype, fname) ==
    <<"<#part type=">> \o CtypeStr(ctype) \o <<" filename=\"">> \o fname
        \o <<"\">", "\n", "\n">>

\* The marker line of an inline attachment gone wrong: the disposition is
\* left out.
InlineAttachmentTplPlain(ctype, fname) ==
    <<"<#part type=">> \o CtypeStr(ctype) \o <<" filename=\"">> \o fname
        \o <<"\">", "\n", "\n">>

\* The marker line of an inline attachment.
InlineAttachmentTpl(ctype, fname) ==
    <<"<#part type=">> \o CtypeStr(ctype) \o <<" disposition=inline", " filename=\"">>
        \o fname \o <<"\">", "\n", "\n">>

\* interpret_attachment gone wrong: the bytes are written whether or not
\* save_attachments is set.
interpret_attachment_always_saving(self, ctype, part, data, st, env) ==
    IF self.show_attachments /\ FilterPartsContains(self.filter_parts, ctype)
    THEN LET fname == PathJoin(self.save_attachments_dir,
                               UnwrapOr(part.attachment_name, "noname"))
             tpl == AttachmentTpl(ctype, fname)
         IN  IF fname \in env.bad
             THEN Err("WriteAttachmentError", fname, st)
             ELSE Ok(tpl, Logged([st EXCEPT !.fs = FsWrite(@, fname, data)],
                                 part, tpl, fname))
    ELSE Ok(<<>>, Logged(st, part, <<>>, NoPath))

\* interpret_attachment gone wrong: a failed write removes the files the
\* call wrote before.
interpret_attachment_rolling_back(self, ctype, part, data, st, env) ==
    IF self.show_attachments /\ FilterPartsContains(self.filter_parts, ctype)
    THEN LET fname == PathJoin(self.save_attachments_dir,
                               UnwrapOr(part.attachment_name, "noname"))
             tpl == AttachmentTpl(ctype, fname)
         IN  IF self.save_attachments
             THEN IF fname \in env.bad
                  THEN Err("WriteAttachmentError", fname,
                           [st EXCEPT !.fs = [p \in {} |-> <<>>]])
                  ELSE Ok(tpl, Logged([st EXCEPT !.fs = FsWrite(@, fname, data)],
                                      part, tpl, fname))
             ELSE Ok(tpl, Logged(st, part, tpl, NoPath))
    ELSE Ok(<<>>, Logged(st, part, <<>>, NoPath))

\* Interpreter::interpret_attachment.  env.bad: the paths fs::write fails on.
interpret_attachment(self, ctype, part, data, st, env) ==
    IF self.show_attachments /\ FilterPartsContains(self.filter_parts, ctype)
    THEN LET fname == PathJoin(self.save_attachments_dir,
                               UnwrapOr(part.attachment_name, "noname"))
             tpl == AttachmentTpl(ctype, fname)
         IN  IF self.save_attachments
             THEN IF fname \in env.bad
                  THEN Err("WriteAttachmentError", fname, st)
                  ELSE Ok(tpl, Logged([st EXCEPT !.fs = FsWrite(@, fname, data)],
                                      part, tpl, fname))
             ELSE Ok(tpl, Logged(st, part, tpl, NoPath))
    ELSE Ok(<<>>, Logged(st, part, <<>>, NoPath))

\* Interpreter::interpret_inline_attachment
interpret_inline_attachment(self, ctype, part, data, st, env) ==
    IF self.show_inline_attachments /\ FilterPartsContains(self.filter_parts, ctype)
    THEN LET ctype2 == get_ctype(part)
             fname == PathJoin(self.save_attachments_dir,
                               UnwrapOr(OrOpt(part.attachment_name, part.content_id),
                                        "noname"))
             tpl == InlineAttachmentTpl(ctype2, fname)
         IN  IF self.save_attachments
             THEN IF fname \in env.bad
                  THEN Err("WriteAttachmentError", fname, st)
                  ELSE Ok(tpl, Logged([st EXCEPT !.fs = FsWrite(@, fname, data)],
                                      part, tpl, fname))
             ELSE Ok(tpl, Logged(st, part, tpl, NoPath))
    ELSE Ok(<<>>, Logged(st, part, <<>>, NoPath))

\* interpret_text gone wrong: the closing marker is left out.
interpret_text_unclosed(self, ctype, text) ==
    IF FilterPartsContains(self.filter_parts, ctype)
    THEN LET t == RemoveCR(text)
         IN  (IF FilterPartsOnly(self.filter_parts, ctype)
              THEN TrimEnd(t)
              ELSE <<"<#part type=">> \o CtypeStr(ctype) \o <<">", "\n">>
                       \o TrimEnd(t))
             \o <<"\n", "\n">>
    ELSE <<>>

\* Interpreter::interpret_text
interpret_text(self, ctype, text) ==
    IF FilterPartsContains(self.filter_parts, ctype)
    THEN LET t == RemoveCR(text)
         IN  (IF FilterPartsOnly(self.filter_parts, ctype)
              THEN TrimEnd(t)
              ELSE <<"<#part type=">> \o CtypeStr(ctype) \o <<">", "\n">>
                       \o TrimEnd(t) \o <<"\n", "<#/part>">>)
             \o <<"\n", "\n">>
    ELSE <<>>

\* Interpreter::interpret_text_plain
interpret_text_plain(self, plain) ==
    IF FilterPartsContains(self.filter_parts, TextPlain)
    THEN LET p1 == RemoveCR(plain)
             p2 == IF ~self.show_plain_texts_signature
                   THEN RSplitOnceBody(p1, SignatureDelim)
                   ELSE p1
         IN  TrimEnd(p2) \o <<"\n", "\n">>
    ELSE <<>>

\* Interpreter::interpret_text_html gone wrong: the HTML source is wrapped as
\* it is, without the conversion to plain text.
interpret_text_html_raw(self, html) ==
    IF FilterPartsContains(self.filter_parts, TextHtml)
    THEN (IF FilterPartsOnly(self.filter_parts, TextHtml)
          THEN TrimEnd(RemoveCR(html))
          ELSE <<"<#part type=">> \o CtypeStr(TextHtml) \o <<">", "\n">>
                   \o TrimEnd(html) \o <<"\n", "<#/part>">>)
         \o <<"\n", "\n">>
    ELSE <<>>

\* Interpreter::interpret_text_html
interpret_text_html(self, html) ==
    IF FilterPartsContains(self.filter_parts, TextHtml)
    THEN (IF FilterPartsOnly(self.filter_parts, TextHtml)
          THEN TrimEnd(RemoveCR(html))
          ELSE <<"<#part type=">> \o CtypeStr(TextHtml) \o <<">", "\n">>
                   \o TrimEnd(html2text(html)) \o <<"\n", "<#/part>">>)
         \o <<"\n", "\n">>
    ELSE <<>>

---------------------------------------------------------------------------
(* The recursive descent.                                                  *)

\* ids.into_iter().filter_map(|id| msg.part(*id)): the parts the ids resolve
\* to, in the order of the ids.
ResolvedParts(m, ids) ==
    LET found == SelectSeq(ids, LAMBDA id : MsgPart(m, id) # None)
    IN  [i \in 1..Len(found) |-> MsgPart(m, found[i])[1]]

\* Iterator::find / find_map: the first of the positions hits, the positions
\* of the parts that satisfy the predicate; 0 when there is none.
FindFirst(hits) ==
    IF hits = {} THEN 0 ELSE CHOOSE i \in hits : \A j \in hits : i <= j

\* The first closure gone wrong: a blank text/plain part is taken too.
IsAnyPlain(part) == part.kind = "Text" /\ is_plain(part)

\* The first find_map closure gone wrong: the text is tested after the
\* signature is cut off.
IsNonEmptyPlainBody(part) ==
    /\ part.kind = "Text" /\ is_plain(part)
    /\ Trim(RSplitOnceBody(part.text, SignatureDelim)) # <<>>

\* The three find_map closures of the multipart/alternative arm under
\* FilterParts::All.
IsNonEmptyPlain(part) ==
    part.kind = "Text" /\ is_plain(part) /\ Trim(part.text) # <<>>

IsNonEmptyHtml(part) ==
    part.kind = "Html" /\ Trim(part.text) # <<>>

IsNonEmptyText(part) ==
    part.kind = "Text" /\ Trim(part.text) # <<>>

\* The predicate of find() gone wrong: Exclude tests membership.
AlternativeMatchesListed(f, part) ==
    CASE f.kind = "Only"    -> {get_ctype(part)} = f.ctypes
      [] f.kind = "Include" -> get_ctype(part) \in f.ctypes
      [] f.kind = "Exclude" -> get_ctype(part) \in f.ctypes
      [] OTHER              -> FALSE

\* The predicate of find() in the Only / Include / Exclude arms.
AlternativeMatches(f, part) ==
    CASE f.kind = "Only"    -> {get_ctype(part)} = f.ctypes
      [] f.kind = "Include" -> get_ctype(part) \in f.ctypes
      [] f.kind = "Exclude" -> get_ctype(part) \notin f.ctypes
      [] OTHER              -> FALSE

\* "<#multipart type={stype}>\n\n"
MultipartOpenTpl(part) ==
    <<"<#multipart type=",
      IF Len(part.content_type) = 2 THEN part.content_type[2] ELSE "mixed",
      ">", "\n", "\n">>

MultipartCloseTpl == <<"<#/multipart>", "\n", "\n">>

\* MessagePart::contents: the bytes of the body of a part.
Contents(part) ==
    IF part.kind \in {"Binary", "InlineBinary"} THEN part.data ELSE part.text

\* pgp_decrypt_cmd.run_with(bytes) followed by Message::parse: env.decrypt
\* maps the inputs the command succeeds on to what Message::parse makes of
\* its output (None: not a message); on every other input the command fails.
RunDecrypt(env, bytes) ==
    IF bytes \in DOMAIN env.decrypt
    THEN [ok |-> TRUE, parsed |-> env.decrypt[bytes]]
    ELSE [ok |-> FALSE, parsed |-> None]

\* pgp_verify_cmd.run_with(bytes): env.verify is the set of inputs the command
\* succeeds on.
RunVerify(env, bytes) == bytes \in env.verify

RECURSIVE interpret_part(_, _, _, _, _)
RECURSIVE interpret_children(_, _, _, _, _, _, _)
RECURSIVE interpret_msg(_, _, _, _)

\* The multipart/alternative arm gone wrong: the children are rendered one
\* after the other, as those of a generic multipart are.
interpret_alternative_all(self, m, part, st, env) ==
    interpret_children(self, m, part.ids, 1, <<>>, st, env)

\* The multipart/alternative arm of interpret_part.
interpret_alternative(self, m, part, st, env) ==
    LET parts == ResolvedParts(m, part.ids)
        f == self.filter_parts
    IN  IF f.kind = "All"
        THEN LET iPlain == FindFirst({k \in DOMAIN parts : IsNonEmptyPlain(parts[k])})
                 iHtml == FindFirst({k \in DOMAIN parts : IsNonEmptyHtml(parts[k])})
                 iText == FindFirst({k \in DOMAIN parts : IsNonEmptyText(parts[k])})
             IN  CASE iPlain # 0 ->
                        LET tpl == interpret_text_plain(self, parts[iPlain].text)
                        IN  Ok(tpl, Logged(st, parts[iPlain], tpl, NoPath))
                   [] iPlain = 0 /\ iHtml # 0 ->
                        LET tpl == interpret_text_html(self, parts[iHtml].text)
                        IN  Ok(tpl, Logged(st, parts[iHtml], tpl, NoPath))
                   [] iPlain = 0 /\ iHtml = 0 /\ iText # 0 ->
                        LET tpl == interpret_text(self, get_ctype(parts[iText]),
                                                  parts[iText].text)
                        IN  Ok(tpl, Logged(st, parts[iText], tpl, NoPath))
                   [] OTHER ->
                        IF Len(parts) > 0
                        THEN interpret_part(self, m, parts[1], st, env)
                        ELSE Ok(<<>>, st)
        ELSE LET i == FindFirst({k \in DOMAIN parts : AlternativeMatches(f, parts[k])})
             IN  IF i # 0
                 THEN interpret_part(self, m, parts[i], st, env)
                 ELSE Ok(<<>>, st)

\* The multipart/encrypted arm gone wrong: the decrypt command is run with
\* the contents of the part ids[0] names.
interpret_encrypted_first(self, m, part, st, env) ==
    IF Len(part.ids) < 2 \/ MsgPart(m, part.ids[2]) = None
    THEN Err("panic", NoPath, st)
    ELSE LET decrypted == RunDecrypt(env, Contents(MsgPart(m, part.ids[1])[1]))
         IN  IF ~decrypted.ok
             THEN Err("DecryptPartError", NoPath, st)
             ELSE IF decrypted.parsed = None
             THEN Err("panic", NoPath, st)
             ELSE interpret_msg(self, decrypted.parsed[1], st, env)

\* The multipart/encrypted arm: the decrypt command is run with the
\* contents of the part ids[1] names, its output is parsed and interpreted.
interpret_encrypted(self, m, part, st, env) ==
    IF Len(part.ids) < 2 \/ MsgPart(m, part.ids[2]) = None
    THEN Err("panic", NoPath, st)
    ELSE LET decrypted == RunDecrypt(env, Contents(MsgPart(m, part.ids[2])[1]))
         IN  IF ~decrypted.ok
             THEN Err("DecryptPartError", NoPath, st)
             ELSE IF decrypted.parsed = None
             THEN Err("panic", NoPath, st)
             ELSE interpret_msg(self, decrypted.parsed[1], st, env)

\* The multipart/signed arm gone wrong: the verify command is run with the
\* contents of the part ids[0] names.
interpret_signed_first(self, m, part, st, env) ==
    IF \/ Len(part.ids) < 2
       \/ MsgPart(m, part.ids[1]) = None
       \/ MsgPart(m, part.ids[2]) = None
    THEN Err("panic", NoPath, st)
    ELSE IF ~RunVerify(env, Contents(MsgPart(m, part.ids[1])[1]))
    THEN Err("VerifyPartError", NoPath, st)
    ELSE interpret_part(self, m, MsgPart(m, part.ids[1])[1], st, env)

\* The multipart/signed arm: the verify command is run with the contents of
\* the part ids[1] names, then the part ids[0] names is interpreted.
interpret_signed(self, m, part, st, env) ==
    IF \/ Len(part.ids) < 2
       \/ MsgPart(m, part.ids[1]) = None
       \/ MsgPart(m, part.ids[2]) = None
    THEN Err("panic", NoPath, st)
    ELSE IF ~RunVerify(env, Contents(MsgPart(m, part.ids[2])[1]))
    THEN Err("VerifyPartError", NoPath, st)
    ELSE interpret_part(self, m, MsgPart(m, part.ids[1])[1], st, env)

\* The loop gone wrong: an id that resolves to no part is unwrapped.
interpret_children_strict(self, m, ids, i, tpl, st, env) ==
    IF i > Len(ids) THEN Ok(tpl, st)
    ELSE IF MsgPart(m, ids[i]) = None
    THEN Err("panic", NoPath, st)
    ELSE LET r == interpret_part(self, m, MsgPart(m, ids[i])[1], st, env)
         IN  IF r.ok
             THEN interpret_children(self, m, ids, i + 1, tpl \o r.tpl, After(r), env)
             ELSE r

\* The loop gone wrong: the error of a child is dropped and the loop goes on
\* with the next child.
interpret_children_lenient(self, m, ids, i, tpl, st, env) ==
    IF i > Len(ids) THEN Ok(tpl, st)
    ELSE IF MsgPart(m, ids[i]) = None
    THEN interpret_children(self, m, ids, i + 1, tpl, st, env)
    ELSE LET r == interpret_part(self, m, MsgPart(m, ids[i])[1], st, env)
         IN  interpret_children(self, m, ids, i + 1, tpl \o r.tpl, After(r), env)

\* The loop of the generic multipart arm gone wrong: the rendering of a child
\* is put before what its elder siblings rendered.
interpret_children_prepending(self, m, ids, i, tpl, st, env) ==
    IF i > Len(ids) THEN Ok(tpl, st)
    ELSE IF MsgPart(m, ids[i]) = None
    THEN interpret_children(self, m, ids, i + 1, tpl, st, env)
    ELSE LET r == interpret_part(self, m, MsgPart(m, ids[i])[1], st, env)
         IN  IF r.ok
             THEN interpret_children(self, m, ids, i + 1, r.tpl \o tpl, After(r), env)
             ELSE r

\* The loop of the generic multipart arm from child i on, tpl being the
\* output so far: an unresolved id is skipped, an error ends the call.
interpret_children(self, m, ids, i, tpl, st, env) ==
    IF i > Len(ids) THEN Ok(tpl, st)
    ELSE IF MsgPart(m, ids[i]) = None
    THEN interpret_children(self, m, ids, i + 1, tpl, st, env)
    ELSE LET r == interpret_part(self, m, MsgPart(m, ids[i])[1], st, env)
         IN  IF r.ok
             THEN interpret_children(self, m, ids, i + 1, tpl \o r.tpl, After(r), env)
             ELSE r

\* The generic multipart arm gone wrong: the closing marker is left out.
interpret_multipart_unclosed(self, m, part, st, env) ==
    LET open == IF self.show_multiparts THEN MultipartOpenTpl(part) ELSE <<>>
    IN  interpret_children(self, m, part.ids, 1, open, st, env)

\* The generic multipart arm.
interpret_multipart(self, m, part, st, env) ==
    LET open == IF self.show_multiparts THEN MultipartOpenTpl(part) ELSE <<>>
        r == interpret_children(self, m, part.ids, 1, open, st, env)
    IN  IF r.ok /\ self.show_multiparts
        THEN [r EXCEPT !.tpl = @ \o MultipartCloseTpl]
        ELSE r

\* Interpreter::interpret_part
interpret_part(self, m, part, st, env) ==
    LET ctype == get_ctype(part)
    IN  CASE part.kind = "Text" /\ ctype = TextPlain ->
               LET tpl == interpret_text_plain(self, part.text)
               IN  Ok(tpl, Logged(st, part, tpl, NoPath))
          [] part.kind = "Text" /\ ctype # TextPlain ->
               LET tpl == interpret_text(self, ctype, part.text)
               IN  Ok(tpl, Logged(st, part, tpl, NoPath))
          [] part.kind = "Html" ->
               LET tpl == interpret_text_html(self, part.text)
               IN  Ok(tpl, Logged(st, part, tpl, NoPath))
          [] part.kind = "Binary" ->
               interpret_attachment(self, ctype, part, part.data, st, env)
          [] part.kind = "InlineBinary" ->
               interpret_inline_attachment(self, ctype, part, part.data, st, env)
          [] part.kind = "Message" ->
               interpret_msg(self, part.msg, st, env)
          [] part.kind = "Multipart" /\ ctype = MultipartAlternative ->
               interpret_alternative(self, m, part, st, env)
          [] part.kind = "Multipart" /\ ctype = MultipartEncrypted ->
               interpret_encrypted(self, m, part, st, env)
          [] part.kind = "Multipart" /\ ctype = MultipartSigned ->
               interpret_signed(self, m, part, st, env)
          [] part.kind = "Multipart" /\ ctype \in {PgpEncrypted, PgpSignature} ->
               Ok(<<>>, st)
          [] OTHER ->
               interpret_multipart(self, m, part, st, env)

\* Interpreter::interpret_msg: the root part is part 0.
interpret_msg(self, m, st, env) == interpret_part(self, m, m.parts[1], st, env)

---------------------------------------------------------------------------
(* The messages the interpreter is run on: every part tree of at most      *)
(* MaxParts parts over the leaves and the containers below, laid out as    *)
(* mail_parser lays a message out (parts in document order, part 0 the     *)
(* root, a container naming its children by id).                           *)

Part(ct, kind, text, data, name, cid, ids, m) ==
    [content_type |-> ct, kind |-> kind, text |-> text, data |-> data,
     attachment_name |-> name, content_id |-> cid, ids |-> ids, msg |-> m,
     offset |-> 0]

TextLeaf(ct, text) == Part(ct, "Text", text, <<>>, None, None, <<>>, EmptyMsg)
HtmlLeaf(text) == Part(TextHtml, "Html", text, <<>>, None, None, <<>>, EmptyMsg)
BinaryLeaf(ct, name, data) ==
    Part(ct, "Binary", <<>>, data, name, None, <<>>, EmptyMsg)
InlineLeaf(ct, name, cid, data) ==
    Part(ct, "InlineBinary", <<>>, data, name, cid, <<>>, EmptyMsg)
MessageLeaf(m) == Part(MessageRfc822, "Message", <<>>, <<>>, None, None, <<>>, m)
Container(ct, ids) == Part(ct, "Multipart", <<>>, <<>>, None, None, ids, EmptyMsg)

\* An embedded message: one plain text part.
InnerMsg == [parts |-> <<TextLeaf(TextPlain, <<"n">>)>>]

\* The parts of a message embedded in the part at id base lie in the raw
\* message after that part's headers: their offsets tell them from the
\* parts of every other embedded message.
Relocate(m, base) ==
    [parts |-> [i \in DOMAIN m.parts |->
                  [m.parts[i] EXCEPT !.offset = 100 * (base + 1) + @]]]

Leaves ==
    { TextLeaf(TextPlain, <<"a", "\r", "\n">>),
      TextLeaf(TextPlain, <<" ", "\n">>),
      HtmlLeaf(<<"<b>", "h", "</b>", "\n">>),
      HtmlLeaf(<<" ">>),
      TextLeaf(TextJson, <<"j", "\n">>),
      BinaryLeaf(OctetStream, Some("a.txt"), <<"x">>),
      InlineLeaf(ImagePng, None, Some("c.png"), <<"y">>),
      MessageLeaf(InnerMsg) }

ContainerTypes == {MultipartMixed, MultipartRelated, MultipartAlternative}

\* A tree is a leaf part or [ct, kids]; Trees[n]: the trees of exactly n
\* parts, Forests[<<k, n>>]: the sequences of trees of n parts in all.
RECURSIVE TreesOf(_)
RECURSIVE ForestsOf(_)

TreesOf(n) ==
    IF n = 1
    THEN {[leaf |-> TRUE, part |-> l, ct |-> <<>>, kids |-> <<>>] : l \in Leaves}
         \cup {[leaf |-> FALSE, part |-> Container(ct, <<>>), ct |-> ct, kids |-> <<>>] :
                 ct \in ContainerTypes}
    ELSE {[leaf |-> FALSE, part |-> Container(ct, <<>>), ct |-> ct, kids |-> f] :
            ct \in ContainerTypes, f \in ForestsOf(n - 1)}

ForestsOf(n) ==
    IF n = 0 THEN {<<>>}
    ELSE UNION {{<<t>> \o f : t \in TreesOf(j), f \in ForestsOf(n - j)} : j \in 1..n}

\* The number of parts of a tree.
RECURSIVE TreeSize(_)
RECURSIVE ForestSize(_)
TreeSize(t) == 1 + ForestSize(t.kids)
ForestSize(f) == IF f = <<>> THEN 0 ELSE TreeSize(Head(f)) + ForestSize(Tail(f))

\* The part table of a tree whose root gets id base.
RECURSIVE Flatten(_, _)
RECURSIVE FlattenForest(_, _)
Flatten(t, base) ==
    IF t.leaf THEN <<[t.part EXCEPT !.offset = base, !.msg = Relocate(@, base)]>>
    ELSE LET sub == FlattenForest(t.kids, base + 1)
         IN  <<[t.part EXCEPT !.offset = base, !.ids = sub.ids]>> \o sub.parts

FlattenForest(f, base) ==
    IF f = <<>> THEN [ids |-> <<>>, parts |-> <<>>]
    ELSE LET here == Flatten(Head(f), base)
             rest == FlattenForest(Tail(f), base + Len(here))
         IN  [ids |-> <<base>> \o rest.ids, parts |-> here \o rest.parts]

Messages == {[parts |-> Flatten(t, 0)] : t \in UNION {TreesOf(n) : n \in 1..MaxParts}}

---------------------------------------------------------------------------
(* The interpreter and its builder.                                        *)

TmpDir == "/tmp"

\* impl Default for Interpreter
DefaultInterpreter ==
    [show_multiparts |-> FALSE,
     filter_parts |-> FilterAll,
     show_plain_texts_signature |-> TRUE,
     show_attachments |-> TRUE,
     show_inline_attachments |-> TRUE,
     save_attachments |-> FALSE,
     save_attachments_dir |-> TmpDir]

\* The filters a caller hands to filter_parts().
Filters ==
    { FilterAll,
      FilterOnlyOf(TextPlain), FilterOnlyOf(TextHtml), FilterOnlyOf(TextJson),
      FilterOnlyOf(OctetStream),
      FilterInclude({TextHtml, ImagePng}),
      FilterExclude({TextPlain, OctetStream}) }

NoFiles == [p \in {} |-> <<>>]
NoAnswers == [b \in {} |-> None]

\* What the environment may do during a call: the paths fs::write fails on,
\* the outcome of the decrypt command and of the verify command.
Envs ==
    {[bad |-> b, decrypt |-> NoAnswers, verify |-> {}] :
        b \in {{}, {<<TmpDir, "/", "a.txt">>}}}

\* A call on which every write succeeds, started on an empty disk.
QuietEnv == [bad |-> {}, decrypt |-> NoAnswers, verify |-> {}]
FreshSt == [fs |-> NoFiles, log |-> <<>>]

\* ShowHeadersStrategy::All, ShowHeadersStrategy::Only(headers)
ShowHeadersAll == [kind |-> "All", headers |-> <<>>]
ShowHeadersOnly(headers) == [kind |-> "Only", headers |-> headers]
NoResult == [ok |-> FALSE, tpl |-> <<>>, err |-> "none", path |-> NoPath]

Init ==
    /\ interp = DefaultInterpreter
    /\ msg \in Messages
    /\ fs = NoFiles
    /\ result = NoResult
    /\ log = <<>>
    /\ pc = "new"
    /\ world = QuietEnv
    /\ show_headers = ShowHeadersAll
    /\ calls = <<>>
    /\ retry = <<>>
    /\ range = <<>>

\* The builder chain of a caller,
\*   Interpreter::new().show_multiparts(b).show_attachments(b)
\*       .show_inline_attachments(b).save_attachments(b).filter_parts(f)
\*       .interpret_msg(&msg),
\* one action per call; pc names the call that comes next.

\* Interpreter::show_multiparts
ShowMultiparts(b) ==
    /\ pc = "new"
    /\ interp' = [interp EXCEPT !.show_multiparts = b]
    /\ pc' = "show_attachments"
    /\ UNCHANGED <<msg, fs, result, log, world, show_headers, calls, retry, range>>

\* Interpreter::filter_parts
FilterPartsSet(f) ==
    /\ pc = "filter_parts"
    /\ interp' = [interp EXCEPT !.filter_parts = f]
    /\ pc' = "interpret"
    /\ UNCHANGED <<msg, fs, result, log, world, show_headers, calls, retry, range>>

\* Interpreter::show_attachments
ShowAttachments(b) ==
    /\ pc = "show_attachments"
    /\ interp' = [interp EXCEPT !.show_attachments = b]
    /\ pc' = "show_inline_attachments"
    /\ UNCHANGED <<msg, fs, result, log, world, show_headers, calls, retry, range>>

\* Interpreter::show_inline_attachments
ShowInlineAttachments(b) ==
    /\ pc = "show_inline_attachments"
    /\ interp' = [interp EXCEPT !.show_inline_attachments = b]
    /\ pc' = "save_attachments"
    /\ UNCHANGED <<msg, fs, result, log, world, show_headers, calls, retry, range>>

\* Interpreter::save_attachments
SaveAttachments(b) ==
    /\ pc = "save_attachments"
    /\ interp' = [interp EXCEPT !.save_attachments = b]
    /\ pc' = "filter_parts"
    /\ UNCHANGED <<msg, fs, result, log, world, show_headers, calls, retry, range>>

\* Interpreter::interpret_msg on msg, under one behaviour of the environment.
InterpretMsg(env) ==
    /\ pc = "interpret"
    /\ \E r \in {interpret_msg(interp, msg, [fs |-> fs, log |-> <<>>], env)} :
           /\ result' = [ok |-> r.ok, tpl |-> r.tpl, err |-> r.err, path |-> r.path]
           /\ fs' = r.fs
           /\ log' = r.log
    /\ pc' = "done"
    /\ UNCHANGED <<interp, msg, world, show_headers, calls, retry, range>>

Next ==
    \/ \E b \in BOOLEAN : ShowMultiparts(b)
    \/ \E b \in BOOLEAN : ShowAttachments(b)
    \/ \E b \in BOOLEAN : ShowInlineAttachments(b)
    \/ \E b \in BOOLEAN : SaveAttachments(b)
    \/ \E f \in Filters : FilterPartsSet(f)
    \/ \E env \in Envs : InterpretMsg(env)

Spec == Init /\ [][Next]_vars

---------------------------------------------------------------------------
(* Vocabulary of the properties.                                           *)

PartOpen == "<#part type="
PartClose == "<#/part>"
MultipartOpen == "<#multipart type="
MultipartClose == "<#/multipart>"
Markers == {PartOpen, PartClose, MultipartOpen, MultipartClose}

HasMarker(tpl) == \E i \in DOMAIN tpl : tpl[i] \in Markers
Count(tpl, tok) == Cardinality({i \in DOMAIN tpl : tpl[i] = tok})
HasText(s) == \E i \in DOMAIN s : ~IsWhitespace(s[i])
Range(s) == {s[i] : i \in DOMAIN s}
MinOf(S) == CHOOSE i \in S : \A j \in S : i <= j

Root == msg.parts[1]
Done == pc = "done"
Filter == interp.filter_parts

\* The parts of the tree under part (part included), those of an embedded
\* message included.
RECURSIVE PartsUnder(_, _)
PartsUnder(m, part) ==
    {part} \cup
    CASE part.kind = "Multipart" ->
           UNION {PartsUnder(m, c) : c \in Range(ResolvedParts(m, part.ids))}
      [] part.kind = "Message" -> PartsUnder(part.msg, part.msg.parts[1])
      [] OTHER -> {}

IsAttachment(part) == part.kind \in {"Binary", "InlineBinary"}
IsGeneric(part) ==
    /\ part.kind = "Multipart"
    /\ get_ctype(part) \notin {MultipartAlternative, MultipartEncrypted,
                               MultipartSigned, PgpEncrypted, PgpSignature}
IsAlternative(part) ==
    part.kind = "Multipart" /\ get_ctype(part) = MultipartAlternative

\* The policy table of the part filter (spec 4.2).
Visible(f, t) ==
    \/ f.kind = "All"
    \/ f.kind = "Only" /\ f.ctypes = {t}
    \/ f.kind = "Include" /\ t \in f.ctypes
    \/ f.kind = "Exclude" /\ t \notin f.ctypes

Rendering(m, part) == interpret_part(interp, m, part, FreshSt, QuietEnv).tpl

---------------------------------------------------------------------------
(* C1.  Under Only(t) no marker appears anywhere in the body: the output   *)
(* of a successful call holds no "<#part", "<#/part>", "<#multipart" or    *)
(* "<#/multipart>" token, whatever the tree and the other options are.     *)
(* The code emits the attachment marker under Only(<attachment type>) and  *)
(* the multipart markers under show_multiparts.                            *)
C1_OnlyEmitsNoMarker ==
    (Done /\ result.ok /\ Filter.kind = "Only") => ~HasMarker(result.tpl)

(* C7.  Under Only(t), when no part of the tree has type t, the body holds *)
(* nothing but blank lines.  The code still emits the multipart markers    *)
(* under show_multiparts.                                                  *)
C7_OnlyWithoutMatchIsBlank ==
    (/\ Done /\ result.ok /\ Filter.kind = "Only"
     /\ \A p \in PartsUnder(msg, Root) : Filter.ctypes # {get_ctype(p)})
    => \A i \in DOMAIN result.tpl : result.tpl[i] = "\n"

---------------------------------------------------------------------------
\* The entries of the ghost log: the leaves rendered by the last call.
Entries == Range(log)

\* What the rendered leaves emitted, in the order of the calls.
RECURSIVE Concat(_)
Concat(entries) ==
    IF entries = <<>> THEN <<>> ELSE Head(entries).tpl \o Concat(Tail(entries))
Emitted == Concat(log)

\* tpl is "<#part type=T>\n" BODY "\n<#/part>\n\n", BODY free of markers.
IsWrapped(tpl, t) ==
    LET n == Len(tpl)
    IN  /\ n >= 10
        /\ SubSeq(tpl, 1, 6) = <<PartOpen, t[1], "/", t[2], ">", "\n">>
        /\ SubSeq(tpl, n - 3, n) = <<"\n", PartClose, "\n", "\n">>
        /\ ~HasMarker(SubSeq(tpl, 7, n - 4))

\* tpl is one opening marker naming T, with a filename and no closing marker.
IsAttachmentLine(tpl, t) ==
    /\ Len(tpl) >= 5
    /\ SubSeq(tpl, 1, 4) = <<PartOpen, t[1], "/", t[2]>>
    /\ tpl[5] \in {" filename=\"", " disposition=inline"}
    /\ Count(tpl, PartOpen) = 1
    /\ Count(tpl, PartClose) = 0

IsPlainLeaf(part) == part.kind = "Text" /\ get_ctype(part) = TextPlain

(* C2 as stated.  Under All, Include and Exclude every rendered text/plain *)
(* part is emitted unwrapped and every other leaf that is emitted is       *)
(* wrapped in "<#part type=T>" ... "<#/part>", T its own type.             *)
C2_EveryOtherLeafWrappedInPair ==
    (Done /\ Filter.kind # "Only") =>
        \A e \in Entries :
            IF IsPlainLeaf(e.part) THEN ~HasMarker(e.tpl)
            ELSE e.tpl # <<>> => IsWrapped(e.tpl, get_ctype(e.part))

(* C2 amended.  Under All, Include and Exclude every rendered text/plain   *)
(* part is emitted unwrapped; every other text or HTML leaf that is        *)
(* emitted is wrapped in "<#part type=T>" ... "<#/part>", T its own type;  *)
(* an attachment that is emitted is a single opening marker naming its     *)
(* type, with a filename and without a closing marker.                     *)
C2_TextWrappedAttachmentOpenOnly ==
    (Done /\ Filter.kind # "Only") =>
        /\ (result.ok /\ ~interp.show_multiparts) => result.tpl = Emitted
        /\ \A e \in Entries :
            CASE IsPlainLeaf(e.part) -> ~HasMarker(e.tpl)
              [] IsAttachment(e.part) ->
                   e.tpl # <<>> => IsAttachmentLine(e.tpl, get_ctype(e.part))
              [] OTHER ->
                   e.tpl # <<>> => IsWrapped(e.tpl, get_ctype(e.part))

\* A call under All or Include that wrapped an HTML or other text part and
\* emitted an attachment line.
C2_Witness ==
    /\ Done /\ result.ok /\ Filter.kind \in {"All", "Include"}
    /\ \E e \in Entries : e.part.kind \in {"Html", "Text"} /\ ~IsPlainLeaf(e.part)
                          /\ e.tpl # <<>> /\ PartClose \in Range(result.tpl)
    /\ \E e \in Entries : IsAttachment(e.part) /\ e.tpl # <<>>

---------------------------------------------------------------------------
\* The children of a container that resolve, in declared order.
Kids(m, part) == ResolvedParts(m, part.ids)

\* The alternatives of the tree of msg (embedded messages apart).
Alternatives == {p \in Range(msg.parts) : IsAlternative(p)}

\* The priority rule of spec 4.4 on the children kids: the position of the
\* branch to render, 0 when there is no child.
PriorityChoice(kids) ==
    LET plain == {i \in DOMAIN kids : IsPlainLeaf(kids[i]) /\ HasText(kids[i].text)}
        html == {i \in DOMAIN kids : kids[i].kind = "Html" /\ HasText(kids[i].text)}
        other == {i \in DOMAIN kids : kids[i].kind = "Text" /\ ~IsPlainLeaf(kids[i])
                                      /\ HasText(kids[i].text)}
    IN  CASE plain # {} -> MinOf(plain)
          [] plain = {} /\ html # {} -> MinOf(html)
          [] plain = {} /\ html = {} /\ other # {} -> MinOf(other)
          [] OTHER -> IF kids = <<>> THEN 0 ELSE 1

\* The rule under Only / Include / Exclude: the first child whose type the
\* filter lets through, 0 when there is none.
FirstVisible(kids) ==
    LET hits == {i \in DOMAIN kids : Visible(Filter, get_ctype(kids[i]))}
    IN  IF hits = {} THEN 0 ELSE MinOf(hits)

\* The rendering of branch i of the children kids (nothing for i = 0).
BranchRendering(kids, i) == IF i = 0 THEN <<>> ELSE Rendering(msg, kids[i])

(* C3.  Under All the branch of a multipart/alternative is chosen by       *)
(* priority, not by position: the first text/plain child with non-blank    *)
(* content, else the first HTML child with non-blank content, else the     *)
(* first other text child with non-blank content, else the first child;    *)
(* the node renders as that child does by the general rule.                *)
C3_AlternativeByPriority ==
    (Done /\ Filter.kind = "All") =>
        /\ \A p \in Alternatives :
               Rendering(msg, p)
                   = BranchRendering(Kids(msg, p), PriorityChoice(Kids(msg, p)))
        /\ (result.ok /\ IsAlternative(Root)) =>
               result.tpl = BranchRendering(Kids(msg, Root),
                                            PriorityChoice(Kids(msg, Root)))

\* The root alternative declares a blank plain part and then an HTML part
\* with content, and the call rendered the HTML part.
C3_Witness ==
    /\ Done /\ result.ok /\ Filter.kind = "All" /\ IsAlternative(Root)
    /\ Len(Kids(msg, Root)) = 2
    /\ IsPlainLeaf(Kids(msg, Root)[1]) /\ ~HasText(Kids(msg, Root)[1].text)
    /\ Kids(msg, Root)[2].kind = "Html"
    /\ PriorityChoice(Kids(msg, Root)) = 2
    /\ "h" \in Range(result.tpl)

\* The children of p under which a leaf emitted something in the last call.
RenderedKids(p) ==
    {i \in DOMAIN Kids(msg, p) :
        \E e \in Entries : e.tpl # <<>> /\ e.part \in PartsUnder(msg, Kids(msg, p)[i])}

(* C4.  Under every filter a multipart/alternative renders at most one of  *)
(* its children: the leaves that emit anything lie under one child, and    *)
(* the output of a root alternative is what that one branch emitted.       *)
C4_AlternativeRendersOneBranch ==
    Done =>
        /\ \A p \in Alternatives : Cardinality(RenderedKids(p)) <= 1
        /\ (result.ok /\ IsAlternative(Root)) =>
               \E i \in DOMAIN Kids(msg, Root) \cup {0} :
                   result.tpl = BranchRendering(Kids(msg, Root), i)

\* A root alternative with two children that both could be rendered, of
\* which the call rendered one.
C4_Witness ==
    /\ Done /\ result.ok /\ IsAlternative(Root)
    /\ Len(Kids(msg, Root)) = 2
    /\ \A i \in 1..2 : Rendering(msg, Kids(msg, Root)[i]) # <<>>
    /\ Kids(msg, Root)[1] # Kids(msg, Root)[2]
    /\ Cardinality(RenderedKids(Root)) = 1

(* C5.  Under Only, Include and Exclude a multipart/alternative renders    *)
(* the first child, in declared order, whose type the filter lets through, *)
(* by the general rule, and nothing when there is no such child.           *)
C5_AlternativeFirstVisible ==
    (Done /\ Filter.kind # "All") =>
        /\ \A p \in Alternatives :
               Rendering(msg, p)
                   = BranchRendering(Kids(msg, p), FirstVisible(Kids(msg, p)))
        /\ (result.ok /\ IsAlternative(Root)) =>
               result.tpl = BranchRendering(Kids(msg, Root),
                                            FirstVisible(Kids(msg, Root)))

\* Under Only(text/html) a root alternative of a plain part and an HTML
\* part rendered the second child.
C5_Witness ==
    /\ Done /\ result.ok /\ IsAlternative(Root)
    /\ Filter = FilterOnlyOf(TextHtml)
    /\ Len(Kids(msg, Root)) = 2
    /\ IsPlainLeaf(Kids(msg, Root)[1])
    /\ FirstVisible(Kids(msg, Root)) = 2
    /\ result.tpl # <<>>

---------------------------------------------------------------------------
\* The multipart markers of an output, in order: the subtype named by each
\* opening marker, MultipartClose for each closing marker.
RECURSIVE SkeletonOf(_)
SkeletonOf(tpl) ==
    CASE tpl = <<>> -> <<>>
      [] tpl # <<>> /\ Head(tpl) = MultipartOpen ->
           (IF Len(tpl) >= 5 /\ SubSeq(tpl, 3, 5) = <<">", "\n", "\n">>
            THEN <<tpl[2]>> ELSE <<"malformed">>) \o SkeletonOf(Tail(tpl))
      [] tpl # <<>> /\ Head(tpl) = MultipartClose ->
           (IF Len(tpl) >= 3 /\ SubSeq(tpl, 2, 3) = <<"\n", "\n">>
            THEN <<MultipartClose>> ELSE <<"malformed">>) \o SkeletonOf(Tail(tpl))
      [] OTHER -> SkeletonOf(Tail(tpl))

SubtypeOf(part) ==
    IF Len(part.content_type) = 2 THEN part.content_type[2] ELSE "mixed"

\* The nesting of the generic multipart containers under part, as a bracket
\* sequence.  all: every container of the tree counts; otherwise only those
\* the descent reaches, an alternative contributing the branch it selects.
RECURSIVE Structure(_, _, _)
RECURSIVE StructureOfAll(_, _, _)
StructureOfAll(m, parts, all) ==
    IF parts = <<>> THEN <<>>
    ELSE Structure(m, Head(parts), all) \o StructureOfAll(m, Tail(parts), all)

Structure(m, part, all) ==
    CASE IsGeneric(part) ->
           <<SubtypeOf(part)>> \o StructureOfAll(m, Kids(m, part), all)
               \o <<MultipartClose>>
      [] IsAlternative(part) ->
           IF all THEN StructureOfAll(m, Kids(m, part), all)
           ELSE LET kids == Kids(m, part)
                    i == IF Filter.kind = "All" THEN PriorityChoice(kids)
                         ELSE FirstVisible(kids)
                IN  IF i = 0 THEN <<>> ELSE Structure(m, kids[i], all)
      [] part.kind = "Message" -> Structure(part.msg, part.msg.parts[1], all)
      [] OTHER -> <<>>

(* C6 as stated.  With show_multiparts=false no multipart marker is        *)
(* emitted at any depth; with show_multiparts=true every generic multipart *)
(* container of the tree contributes one opening marker naming its subtype *)
(* before its children and one closing marker after them.                  *)
C6_EveryContainerMarked ==
    (Done /\ result.ok) =>
        SkeletonOf(result.tpl)
            = IF interp.show_multiparts THEN Structure(msg, Root, TRUE) ELSE <<>>

(* C6 amended.  With show_multiparts=false no multipart marker is emitted  *)
(* at any depth; with show_multiparts=true, in a call that returns a       *)
(* document, every generic multipart container that the descent reaches    *)
(* contributes one opening marker naming its subtype before its children   *)
(* and one closing marker after them, so the markers are balanced and nest *)
(* as the reached containers nest; a container inside a branch that a      *)
(* multipart/alternative does not select contributes no marker.            *)
C6_ReachedContainersMarked ==
    (Done /\ result.ok) =>
        SkeletonOf(result.tpl)
            = IF interp.show_multiparts THEN Structure(msg, Root, FALSE) ELSE <<>>

\* A generic container nested in a generic container, rendered with
\* show_multiparts: two opening markers naming two subtypes, then two
\* closing markers.
C6_Witness ==
    /\ Done /\ result.ok /\ interp.show_multiparts
    /\ Len(SkeletonOf(result.tpl)) = 4
    /\ SkeletonOf(result.tpl)[1] # SkeletonOf(result.tpl)[2]
    /\ SkeletonOf(result.tpl)[2] # MultipartClose
    /\ SkeletonOf(result.tpl)[3] = MultipartClose
    /\ IsGeneric(Root) /\ Len(Root.ids) = 1 /\ IsGeneric(Kids(msg, Root)[1])

---------------------------------------------------------------------------
\* The MIME type strings of the model.
TypeStrings ==
    {TextPlain, TextHtml, TextJson, OctetStream, ImagePng, MessageRfc822,
     MultipartMixed, MultipartRelated, MultipartAlternative}

(* C8.  The filter predicates follow the policy table for every type       *)
(* string: contains is TRUE under All, equality under Only(t), membership  *)
(* under Include, non-membership under Exclude; only is equality under     *)
(* Only(t) and FALSE under every other policy; only implies contains.      *)
C8_FilterPredicatesFollowTable ==
    \A t \in TypeStrings :
        /\ FilterPartsContains(Filter, t) = Visible(Filter, t)
        /\ FilterPartsOnly(Filter, t) = (Filter.kind = "Only" /\ Filter.ctypes = {t})
        /\ FilterPartsOnly(Filter, t) => FilterPartsContains(Filter, t)

\* A call under Only(t) that rendered a part of type t bare and hid a part
\* of another type.
C8_Witness ==
    /\ Done /\ result.ok /\ Filter.kind = "Only"
    /\ \E e \in Entries : /\ FilterPartsOnly(Filter, get_ctype(e.part))
                          /\ e.tpl # <<>> /\ ~HasMarker(e.tpl)
    /\ \E e \in Entries : /\ ~FilterPartsContains(Filter, get_ctype(e.part))
                          /\ e.tpl = <<>>

---------------------------------------------------------------------------
\* An attachment that its show flag and the filter let through.
ShownAttachment(part) ==
    /\ \/ part.kind = "Binary" /\ interp.show_attachments
       \/ part.kind = "InlineBinary" /\ interp.show_inline_attachments
    /\ Visible(Filter, get_ctype(part))

Written == {e.wrote : e \in Entries} \ {NoPath}

(* C9.  A file is written only for a Binary part under show_attachments,   *)
(* or an InlineBinary part under show_inline_attachments, that the filter  *)
(* lets through, and only under save_attachments; an attachment that is    *)
(* hidden or filtered out emits nothing and writes nothing; every file on  *)
(* disk holds the bytes of such a shown attachment.                        *)
C9_FilesOnlyForShownSavedAttachments ==
    Done =>
        /\ \A e \in Entries :
               e.wrote # NoPath =>
                   IsAttachment(e.part) /\ ShownAttachment(e.part)
                       /\ interp.save_attachments
        /\ \A e \in Entries :
               (IsAttachment(e.part) /\ ~ShownAttachment(e.part)) =>
                   e.tpl = <<>> /\ e.wrote = NoPath
        /\ DOMAIN fs = Written
        /\ ~interp.save_attachments => DOMAIN fs = {}
        /\ \A path \in DOMAIN fs :
               \E p \in PartsUnder(msg, Root) :
                   IsAttachment(p) /\ ShownAttachment(p) /\ fs[path] = p.data

\* A call under save_attachments that wrote the file of a shown attachment
\* and neither rendered nor wrote a hidden one.
C9_Witness ==
    /\ Done /\ result.ok /\ interp.save_attachments
    /\ DOMAIN fs # {}
    /\ \E e \in Entries : IsAttachment(e.part) /\ e.tpl = <<>> /\ e.wrote = NoPath

---------------------------------------------------------------------------
\* The tokens of tpl between the filename=" token and the closing "> token.
PathIn(tpl) ==
    LET from == MinOf({i \in DOMAIN tpl : tpl[i] = " filename=\""})
    IN  SubSeq(tpl, from + 1, Len(tpl) - 3)

\* "<#part type=T filename="PATH">" and a blank line, for an inline
\* attachment with disposition=inline after the type.
MarkerLine(part, path) ==
    <<PartOpen, get_ctype(part)[1], "/", get_ctype(part)[2]>>
        \o (IF part.kind = "InlineBinary" THEN <<" disposition=inline">> ELSE <<>>)
        \o <<" filename=\"">> \o path \o <<"\">", "\n", "\n">>

(* C10.  A shown attachment is rendered as exactly one marker line without *)
(* body and without closing marker, "<#part type=T filename="PATH">" and a *)
(* blank line, T the type of the part and PATH the destination path (the   *)
(* path the bytes go to); an inline attachment carries disposition=inline  *)
(* between type and filename.                                              *)
C10_AttachmentIsOneMarkerLine ==
    Done =>
        /\ \A e \in Entries :
               (IsAttachment(e.part) /\ ShownAttachment(e.part)) =>
                   /\ " filename=\"" \in Range(e.tpl)
                   /\ e.tpl = MarkerLine(e.part, PathIn(e.tpl))
                   /\ PathIn(e.tpl) # <<>>
                   /\ ~HasMarker(PathIn(e.tpl))
                   /\ e.wrote # NoPath => PathIn(e.tpl) = e.wrote
        /\ (result.ok /\ IsAttachment(Root) /\ ShownAttachment(Root)) =>
               result.tpl = MarkerLine(Root, PathIn(result.tpl))
        /\ (/\ result.ok /\ Root.kind = "Binary" /\ ShownAttachment(Root)
            /\ Root.attachment_name = Some("a.txt")) =>
               result.tpl = <<"<#part type=", "application", "/", "octet-stream",
                              " filename=\"", TmpDir, "/", "a.txt", "\">", "\n", "\n">>

\* A call that rendered a shown attachment and a shown inline attachment.
C10_Witness ==
    /\ Done /\ result.ok
    /\ \E e \in Entries : e.part.kind = "Binary" /\ e.tpl # <<>>
    /\ \E e \in Entries : e.part.kind = "InlineBinary" /\ e.tpl # <<>>
                          /\ " disposition=inline" \in Range(result.tpl)

---------------------------------------------------------------------------
(* A second family of messages: attachments with and without names, pgp    *)
(* containers and pgp control parts, container ids that resolve to no      *)
(* part; run under environments in which the commands answer.              *)

\* The part trees of exactly n parts over the leaves L and the container
\* types C.
RECURSIVE TreesOver(_, _, _)
RECURSIVE ForestsOver(_, _, _)

TreesOver(L, C, n) ==
    IF n = 1
    THEN {[leaf |-> TRUE, part |-> l, ct |-> <<>>, kids |-> <<>>] : l \in L}
         \cup {[leaf |-> FALSE, part |-> Container(ct, <<>>), ct |-> ct, kids |-> <<>>] :
                 ct \in C}
    ELSE {[leaf |-> FALSE, part |-> Container(ct, <<>>), ct |-> ct, kids |-> f] :
            ct \in C, f \in ForestsOver(L, C, n - 1)}

ForestsOver(L, C, n) ==
    IF n = 0 THEN {<<>>}
    ELSE UNION {{<<t>> \o f : t \in TreesOver(L, C, j), f \in ForestsOver(L, C, n - j)} :
                  j \in 1..n}

MessagesOver(L, C, n) ==
    {[parts |-> Flatten(t, 0)] : t \in UNION {TreesOver(L, C, k) : k \in 1..n}}

PlainA == TextLeaf(TextPlain, <<"a", "\n">>)
NamedAttachment == BinaryLeaf(OctetStream, Some("a.txt"), <<"x">>)

\* Attachments by what names them: an attachment name, an absolute one, a
\* content id, both, nothing.
AttachmentLeaves ==
    { NamedAttachment,
      BinaryLeaf(OctetStream, None, <<"u">>),
      BinaryLeaf(OctetStream, Some("/abs"), <<"w">>),
      InlineLeaf(ImagePng, Some("i.png"), Some("c.png"), <<"y">>),
      InlineLeaf(ImagePng, None, Some("c.png"), <<"y">>),
      InlineLeaf(ImagePng, None, None, <<"z">>) }

\* The parts of a pgp message as mail_parser hands them over (binary
\* bodies): the "Version: 1" control part, the encrypted payload, the
\* signature; and a part of a pgp type with a multipart body.
PgpControl == BinaryLeaf(PgpEncrypted, None, <<"v">>)
PgpPayload == BinaryLeaf(OctetStream, None, <<"e">>)
PgpSig == BinaryLeaf(PgpSignature, None, <<"s">>)
PgpLeaves == {PlainA, PgpControl, PgpPayload, PgpSig, Container(PgpEncrypted, <<>>)}

PgpContainerTypes ==
    {MultipartMixed, MultipartAlternative, MultipartEncrypted, MultipartSigned}

\* m with an id that names no part put into the ids of its part p (a
\* container) after the first k ids.
WithDangling(m, p, k) ==
    [parts |-> [m.parts EXCEPT ![p].ids =
                  SubSeq(@, 1, k) \o <<Len(m.parts)>> \o SubSeq(@, k + 1, Len(@))]]

DanglingMessages ==
    LET base == MessagesOver({PlainA, NamedAttachment, Container(PgpSignature, <<>>)},
                             PgpContainerTypes \cup {MultipartRelated}, MaxParts - 1)
    IN  UNION {{WithDangling(m, p, k) : k \in 0..Len(m.parts[p].ids)} :
                 <<m, p>> \in {<<m, p>> \in base \X (1..(MaxParts - 1)) :
                                  p \in DOMAIN m.parts /\ m.parts[p].kind = "Multipart"}}

\* A multipart/mixed over three attachments of three names.
ThreeAttachments ==
    [parts |-> <<[Container(MultipartMixed, <<1, 2, 3>>) EXCEPT !.offset = 0],
                 [BinaryLeaf(OctetStream, None, <<"u">>) EXCEPT !.offset = 1],
                 [NamedAttachment EXCEPT !.offset = 2],
                 [InlineLeaf(ImagePng, Some("i.png"), Some("c.png"), <<"y">>)
                      EXCEPT !.offset = 3]>>]

EdgeMessages ==
    MessagesOver(AttachmentLeaves \cup {PlainA}, {MultipartMixed}, MaxParts)
        \cup MessagesOver(PgpLeaves, PgpContainerTypes, MaxParts)
        \cup DanglingMessages
        \cup {ThreeAttachments}

\* What Message::parse makes of the output of the decrypt command.
DecryptedMsg ==
    Relocate([parts |-> Flatten(
                 [leaf |-> FALSE, part |-> Container(MultipartMixed, <<>>),
                  ct |-> MultipartMixed,
                  kids |-> <<[leaf |-> TRUE, part |-> TextLeaf(TextPlain, <<"d", "\n">>),
                              ct |-> <<>>, kids |-> <<>>],
                             [leaf |-> TRUE, part |-> NamedAttachment,
                              ct |-> <<>>, kids |-> <<>>]>>], 0)], MaxParts)

\* The decrypt command fails; or it decrypts the payload to a message and
\* the control part to another one; or its output is no message.
DecryptAnswers ==
    { NoAnswers,
      [b \in {<<"e">>, <<"v">>} |->
          IF b = <<"e">> THEN Some(DecryptedMsg) ELSE Some(InnerMsg)],
      [b \in {<<"e">>} |-> None] }

EdgeEnvs ==
    {[bad |-> b, decrypt |-> d, verify |-> {<<"s">>}] :
        b \in {{}, {<<TmpDir, "/", "a.txt">>}}, d \in DecryptAnswers}
    \cup {[bad |-> {}, decrypt |-> NoAnswers, verify |-> v] :
            v \in {{}, {<<"a", "\n">>}}}

EdgeFilters == {FilterAll, FilterExclude({OctetStream})}
Dirs == {TmpDir, "/d"}

InitEdge ==
    /\ interp = DefaultInterpreter
    /\ msg \in EdgeMessages
    /\ fs = NoFiles
    /\ result = NoResult
    /\ log = <<>>
    /\ pc = "save_attachments_dir"
    /\ world \in EdgeEnvs
    /\ show_headers = ShowHeadersAll
    /\ calls = <<>>
    /\ retry = <<>>
    /\ range = <<>>

\* Interpreter::save_attachments_dir
SaveAttachmentsDir(dir) ==
    /\ pc = "save_attachments_dir"
    /\ interp' = [interp EXCEPT !.save_attachments_dir = dir]
    /\ pc' = "save_attachments"
    /\ UNCHANGED <<msg, fs, result, log, world, show_headers, calls, retry, range>>

\* The chain Interpreter::new().save_attachments_dir(dir).save_attachments(b)
\*     .filter_parts(f).interpret_msg(&msg) in the environment world.
NextEdge ==
    \/ \E dir \in Dirs : SaveAttachmentsDir(dir)
    \/ \E b \in BOOLEAN : SaveAttachments(b)
    \/ \E f \in EdgeFilters : FilterPartsSet(f)
    \/ InterpretMsg(world)

SpecEdge == InitEdge /\ [][NextEdge]_vars

---------------------------------------------------------------------------
\* The name of the file of an attachment: its attachment name; for an
\* inline attachment without one its content id; "noname" otherwise.
DestName(part) ==
    IF part.attachment_name # None THEN part.attachment_name[1]
    ELSE IF part.kind = "InlineBinary" /\ part.content_id # None
    THEN part.content_id[1]
    ELSE "noname"

\* The file DestName(part) inside the configured directory.
DestPath(part) == <<interp.save_attachments_dir, "/", DestName(part)>>

(* C11.  The destination path of an attachment is the configured directory *)
(* joined with its attachment name, "noname" when it has none; an inline   *)
(* attachment without a name uses its content id, "noname" when it has     *)
(* neither; the marker names the path the bytes are written to.  The code  *)
(* leaves the configured directory when the attachment name is absolute:   *)
(* PathBuf::join then yields the name alone.                               *)
C11_PathInsideConfiguredDir ==
    Done =>
        /\ \A e \in Entries :
               (IsAttachment(e.part) /\ e.tpl # <<>>) =>
                   /\ PathIn(e.tpl) = DestPath(e.part)
                   /\ e.wrote # NoPath => e.wrote = DestPath(e.part)
        /\ \A path \in DOMAIN fs : path[1] = interp.save_attachments_dir

---------------------------------------------------------------------------
\* world with every failure an answer can turn into a success turned into
\* one: every write succeeds, the verify command accepts every input, the
\* decrypt command decrypts every input to a message.
Benign ==
    LET inputs == {Contents(p) : p \in Range(msg.parts)}
    IN  [bad |-> {},
         decrypt |-> [b \in inputs |->
                        IF b \in DOMAIN world.decrypt /\ world.decrypt[b] # None
                        THEN world.decrypt[b] ELSE Some(InnerMsg)],
         verify |-> inputs]

\* The call of the state, had nothing failed.
Unfailing == interpret_msg(interp, msg, FreshSt, Benign)

IsPrefix(s, t) == Len(s) <= Len(t) /\ s = SubSeq(t, 1, Len(s))

---------------------------------------------------------------------------
\* The ids of part that resolve to no part of m.
DanglingIds(m, part) == {id \in Range(part.ids) : MsgPart(m, id) = None}

\* m with the ids that resolve to no part taken out of its generic
\* multipart containers.
WithoutDangling(m) ==
    [parts |-> [i \in DOMAIN m.parts |->
                  IF IsGeneric(m.parts[i])
                  THEN [m.parts[i] EXCEPT
                            !.ids = SelectSeq(@, LAMBDA id : MsgPart(m, id) # None)]
                  ELSE m.parts[i]]]

RECURSIVE Renderings(_, _)
Renderings(m, parts) ==
    IF parts = <<>> THEN <<>>
    ELSE Rendering(m, Head(parts)) \o Renderings(m, Tail(parts))

(* C13.  In a generic multipart an id that resolves to no part is skipped  *)
(* and fails nothing: the call ends as it ends on the message without the  *)
(* dangling ids (same result, same leaves, same files), and the output of  *)
(* a generic root over leaves is the concatenation, in the order of the    *)
(* ids, of the renderings of the children that resolve.                    *)
C13_DanglingIdSkipped ==
    Done =>
        /\ \E r \in {interpret_msg(interp, WithoutDangling(msg), FreshSt, world)} :
               /\ result = [ok |-> r.ok, tpl |-> r.tpl, err |-> r.err, path |-> r.path]
               /\ fs = r.fs
               /\ [i \in DOMAIN log |-> log[i].tpl] = [i \in DOMAIN r.log |-> r.log[i].tpl]
        /\ (/\ result.ok /\ IsGeneric(Root)
            /\ \A i \in DOMAIN Kids(msg, Root) : Kids(msg, Root)[i].kind # "Multipart")
           => result.tpl = Renderings(msg, Kids(msg, Root))

\* A generic root lists an id that resolves to no part before a child that
\* was rendered.
C13_Witness ==
    /\ Done /\ result.ok /\ IsGeneric(Root)
    /\ Len(Root.ids) = 2
    /\ Root.ids[1] \in DanglingIds(msg, Root)
    /\ Root.ids[2] \notin DanglingIds(msg, Root)
    /\ result.tpl # <<>>
    /\ result.tpl = Rendering(msg, Kids(msg, Root)[1])

---------------------------------------------------------------------------
\* What the caller sees of a call.
Seen(r) == [ok |-> r.ok, tpl |-> r.tpl, err |-> r.err, path |-> r.path]

\* The multipart/encrypted parts of msg that name two parts that resolve.
EncryptedNodes ==
    {p \in Range(msg.parts) :
        /\ p.kind = "Multipart" /\ get_ctype(p) = MultipartEncrypted
        /\ Len(p.ids) >= 2
        /\ MsgPart(msg, p.ids[1]) # None /\ MsgPart(msg, p.ids[2]) # None}

\* The child of a container at position k (from 0).
ChildAt(p, k) == MsgPart(msg, p.ids[k + 1])[1]

(* C14.  A multipart/encrypted node hands the child at position 1 to the   *)
(* decrypt command and never renders the child at position 0.  When the    *)
(* command fails the node yields the decrypt error and renders nothing;    *)
(* when it succeeds and its output parses, the node yields what the        *)
(* interpretation of the parsed message yields.                            *)
C14_EncryptedDecryptsSecondChild ==
    /\ \A p \in EncryptedNodes :
           \E r \in {interpret_part(interp, msg, p, FreshSt, world)} :
               LET bytes == Contents(ChildAt(p, 1))
               IN  /\ bytes \notin DOMAIN world.decrypt =>
                          /\ ~r.ok /\ r.err = "DecryptPartError"
                          /\ r.tpl = <<>> /\ r.log = <<>> /\ r.fs = NoFiles
                   /\ (bytes \in DOMAIN world.decrypt /\ world.decrypt[bytes] # None) =>
                          r = interpret_msg(interp, world.decrypt[bytes][1], FreshSt, world)
                   /\ \A i \in DOMAIN r.log : r.log[i].part \notin Range(msg.parts)
    /\ (Done /\ Root \in EncryptedNodes) =>
           /\ result = Seen(interpret_part(interp, msg, Root, FreshSt, world))
           /\ \A e \in Entries : e.part \notin Range(msg.parts)

\* The root is multipart/encrypted over the control part and the payload,
\* the command decrypts either, and the call rendered the message the
\* payload decrypts to.
C14_Witness ==
    /\ Done /\ result.ok /\ Root \in EncryptedNodes
    /\ ChildAt(Root, 0) = [PgpControl EXCEPT !.offset = 1]
    /\ ChildAt(Root, 1) = [PgpPayload EXCEPT !.offset = 2]
    /\ {<<"e">>, <<"v">>} \subseteq DOMAIN world.decrypt
    /\ "d" \in Range(result.tpl)
    /\ "n" \notin Range(result.tpl)

---------------------------------------------------------------------------
\* The multipart/signed parts of msg that name two parts that resolve.
SignedNodes ==
    {p \in Range(msg.parts) :
        /\ p.kind = "Multipart" /\ get_ctype(p) = MultipartSigned
        /\ Len(p.ids) >= 2
        /\ MsgPart(msg, p.ids[1]) # None /\ MsgPart(msg, p.ids[2]) # None}

(* C15.  A multipart/signed node runs the verify command on the child at   *)
(* position 1 before it renders anything.  When the command succeeds the   *)
(* node yields what the child at position 0 alone yields by the general    *)
(* rule; when it fails the node yields the verify error and the signed     *)
(* content is neither rendered nor written.                                *)
C15_SignedVerifiesThenRendersFirstChild ==
    /\ \A p \in SignedNodes :
           \E r \in {interpret_part(interp, msg, p, FreshSt, world)} :
               IF Contents(ChildAt(p, 1)) \in world.verify
               THEN r = interpret_part(interp, msg, ChildAt(p, 0), FreshSt, world)
               ELSE /\ ~r.ok /\ r.err = "VerifyPartError"
                    /\ r.tpl = <<>> /\ r.log = <<>> /\ r.fs = NoFiles
    /\ (Done /\ Root \in SignedNodes) =>
           /\ result = Seen(interpret_part(interp, msg, Root, FreshSt, world))
           /\ \A e \in Entries : e.part # ChildAt(Root, 1)

\* The root is multipart/signed over a plain part and its signature, the
\* command accepts the signature, and the call rendered the plain part.
C15_Witness ==
    /\ Done /\ result.ok /\ Root \in SignedNodes
    /\ ChildAt(Root, 0) = [PlainA EXCEPT !.offset = 1]
    /\ ChildAt(Root, 1) = [PgpSig EXCEPT !.offset = 2]
    /\ world.verify = {<<"s">>}
    /\ result.tpl = <<"a", "\n", "\n">>

---------------------------------------------------------------------------
PgpPartTypes == {PgpEncrypted, PgpSignature}

(* C16.  A part of type application/pgp-encrypted or                       *)
(* application/pgp-signature renders nothing and raises no error, wherever *)
(* it lies in the tree and whatever the kind of its body.  The code does   *)
(* so for a multipart body only: a binary body of these types is handed to *)
(* interpret_attachment like any attachment.                               *)
C16_PgpPartsRenderNothing ==
    Done =>
        /\ \A e \in Entries :
               get_ctype(e.part) \in PgpPartTypes => e.tpl = <<>> /\ e.wrote = NoPath
        /\ \A p \in Range(msg.parts) :
               get_ctype(p) \in PgpPartTypes =>
                   \E r \in {interpret_part(interp, msg, p, FreshSt, world)} :
                       r.ok /\ r.tpl = <<>> /\ r.fs = NoFiles

---------------------------------------------------------------------------
(* A third family of messages: one text part, plain or HTML, over texts    *)
(* made of at most MaxSegs segments.                                       *)

\* Largest number of segments of a generated text.
MaxSegs == 4

RECURSIVE TextsOf(_, _)
TextsOf(segs, n) ==
    IF n = 0 THEN {<<>>}
    ELSE LET shorter == TextsOf(segs, n - 1)
         IN  shorter \cup {t \o sg : t \in shorter, sg \in segs}

PlainSegments ==
    {<<"a">>, <<"\n">>, <<" ">>, <<"\r">>, SignatureDelim, <<"-", "-", " ", "\r", "\n">>}

HtmlSegments == {<<"<b>">>, <<"h">>, <<"</b>">>, <<"&lt;">>, <<"\r">>, <<"\n">>}

TextMessages ==
    {[parts |-> <<TextLeaf(TextPlain, t)>>] : t \in TextsOf(PlainSegments, MaxSegs)}
        \cup {[parts |-> <<HtmlLeaf(t)>>] : t \in TextsOf(HtmlSegments, MaxSegs)}

TextFilters ==
    { FilterAll, FilterOnlyOf(TextPlain), FilterOnlyOf(TextHtml),
      FilterInclude({TextHtml}), FilterExclude({TextHtml}) }

InitText ==
    /\ interp = DefaultInterpreter
    /\ msg \in TextMessages
    /\ fs = NoFiles
    /\ result = NoResult
    /\ log = <<>>
    /\ pc = "show_plain_texts_signature"
    /\ world = QuietEnv
    /\ show_headers = ShowHeadersAll
    /\ calls = <<>>
    /\ retry = <<>>
    /\ range = <<>>

\* Interpreter::show_plain_texts_signature
ShowPlainTextsSignature(b) ==
    /\ pc = "show_plain_texts_signature"
    /\ interp' = [interp EXCEPT !.show_plain_texts_signature = b]
    /\ pc' = "filter_parts"
    /\ UNCHANGED <<msg, fs, result, log, world, show_headers, calls, retry, range>>

\* The chain Interpreter::new().show_plain_texts_signature(b).filter_parts(f)
\*     .interpret_msg(&msg).
NextText ==
    \/ \E b \in BOOLEAN : ShowPlainTextsSignature(b)
    \/ \E f \in TextFilters : FilterPartsSet(f)
    \/ InterpretMsg(world)

SpecText == InitText /\ [][NextText]_vars

\* The children of the alternatives: plain texts with and without a
\* signature, one that is a signature only, a blank one, an HTML part, a
\* blank HTML part and a text of another type.
SignedLeaves ==
    {TextLeaf(TextPlain, <<"a", "\n">> \o SignatureDelim \o <<"s">>),
     TextLeaf(TextPlain, SignatureDelim \o <<"s">>),
     TextLeaf(TextPlain, <<"\n">> \o SignatureDelim \o <<"s", "\n">>),
     TextLeaf(TextPlain, <<" ", "\n">>),
     PlainA,
     HtmlLeaf(<<"<b>", "h", "</b>">>),
     HtmlLeaf(<<" ">>),
     TextLeaf(TextJson, <<"a">>)}

\* A multipart/alternative of two children.
SignedAlternatives ==
    {[parts |-> <<[Container(MultipartAlternative, <<1, 2>>) EXCEPT !.offset = 0],
                  [k1 EXCEPT !.offset = 1],
                  [k2 EXCEPT !.offset = 2]>>] :
         k1 \in SignedLeaves, k2 \in SignedLeaves}

InitSigned ==
    /\ interp = DefaultInterpreter
    /\ msg \in SignedAlternatives
    /\ fs = NoFiles
    /\ result = NoResult
    /\ log = <<>>
    /\ pc = "show_plain_texts_signature"
    /\ world = QuietEnv
    /\ show_headers = ShowHeadersAll
    /\ calls = <<>>
    /\ retry = <<>>
    /\ range = <<>>

\* The chain of NextText on the alternatives.
SpecSigned == InitSigned /\ [][NextText]_vars

\* The positions at which pat occurs in s.
Occurrences(s, pat) == {i \in 1..Len(s) : MatchAt(s, pat, i)}

\* The positions at which the line "-- " starts in s: the delimiter opens s
\* or follows a newline.
DelimiterLines(s) ==
    {i \in Occurrences(s, SignatureDelim) : i = 1 \/ s[i - 1] = "\n"}

MaxOf(S) == CHOOSE i \in S : \A j \in S : j <= i

\* s up to the last of the positions cuts, s itself when there is none.
CutAtLast(s, cuts) == IF cuts = {} THEN s ELSE SubSeq(s, 1, MaxOf(cuts) - 1)

\* s without its trailing whitespace.
Trimmed(s) ==
    IF \A i \in DOMAIN s : IsWhitespace(s[i]) THEN <<>>
    ELSE SubSeq(s, 1, MaxOf({i \in DOMAIN s : ~IsWhitespace(s[i])}))

C19_HtmlRendering ==
    (Done /\ Root.kind = "Html") =>
        /\ result.ok
        /\ fs = NoFiles
        /\ result.tpl =
             IF ~Visible(Filter, TextHtml) THEN <<>>
             ELSE IF Filter = FilterOnlyOf(TextHtml)
                  THEN Trimmed(SelectSeq(Root.text, LAMBDA c : c # "\r"))
                           \o <<"\n", "\n">>
                  ELSE <<PartOpen, "text", "/", "html", ">", "\n">>
                           \o Trimmed(html2text(Root.text))
                           \o <<"\n", PartClose, "\n", "\n">>
        /\ (Filter = FilterOnlyOf(TextHtml)) =>
               ~HasMarker(result.tpl) /\ "\r" \notin Range(result.tpl)
        /\ (/\ Visible(Filter, TextHtml) /\ Filter # FilterOnlyOf(TextHtml)
            /\ Root.text = <<"<b>", "h", "</b>", "\n">>) =>
               result.tpl = <<PartOpen, "text", "/", "html", ">", "\n", "h", "\n",
                              PartClose, "\n", "\n">>
        /\ (/\ Filter = FilterOnlyOf(TextHtml)
            /\ Root.text = <<"<b>", "\r", "\n", "h", "\n">>) =>
               result.tpl = <<"<b>", "\n", "h", "\n", "\n">>

\* An HTML source with a tag and a trailing newline, shown under a policy
\* other than Only: converted and wrapped.
C19_Witness ==
    /\ Done
    /\ Root.kind = "Html"
    /\ Root.text = <<"<b>", "h", "</b>", "\n">>
    /\ Filter = FilterInclude({TextHtml})
    /\ result.tpl = <<PartOpen, "text", "/", "html", ">", "\n", "h", "\n",
                      PartClose, "\n", "\n">>

---------------------------------------------------------------------------
(* MimeInterpreter: the header block, then the body.  A message carries    *)
(* its headers as a sequence of [name, value]; the body interpreter is the *)
(* Interpreter above.                                                      *)

\* Longest list of header names a caller hands to a builder.
MaxHeaders == 3

Header(name, value) == [name |-> name, value |-> value]

\* header::display_value, as tests::all_headers shows it: a message id is
\* put between angle brackets, an address and a free text are printed bare.
display_value(key, val) ==
    IF key \in {"Message-ID", "In-Reply-To"} THEN <<"<", val, ">">> ELSE <<val>>

\* format!("{key}: {val}\n")
HeaderLine(key, val) == <<key, ": ">> \o display_value(key, val) \o <<"\n">>

\* Message::header(key)
MsgHeader(m, key) ==
    LET hits == {i \in DOMAIN m.headers : m.headers[i].name = key}
    IN  IF hits = {} THEN None ELSE Some(m.headers[MaxOf(hits)].value)

\* msg.headers().iter().for_each(...)
RECURSIVE AllHeaderLines(_)
AllHeaderLines(headers) ==
    IF headers = <<>> THEN <<>>
    ELSE HeaderLine(Head(headers).name, Head(headers).value)
             \o AllHeaderLines(Tail(headers))

\* keys.iter().filter_map(|key| msg.header(key).map(|val| (key, val)))
\*     .for_each(...)
RECURSIVE OnlyHeaderLines(_, _)
OnlyHeaderLines(m, keys) ==
    IF keys = <<>> THEN <<>>
    ELSE (IF MsgHeader(m, Head(keys)) = None THEN <<>>
          ELSE HeaderLine(Head(keys), MsgHeader(m, Head(keys))[1]))
             \o OnlyHeaderLines(m, Tail(keys))

\* The match on self.show_headers of MimeInterpreter::interpret_msg
HeaderBlock(show, m) ==
    IF show.kind = "All" THEN AllHeaderLines(m.headers)
    ELSE OnlyHeaderLines(m, show.headers)

\* MimeInterpreter::interpret_msg gone wrong: the body is appended as the body
\* interpreter returned it, trailing whitespace included.
MimeInterpreter_interpret_msg_untrimmed(show, body_interpreter, m, st, env) ==
    LET mml == HeaderBlock(show, m)
        sep == IF mml # <<>> THEN <<"\n">> ELSE <<>>
        mml_body == interpret_msg(body_interpreter, m, st, env)
    IN  IF ~mml_body.ok THEN mml_body
        ELSE Ok(mml \o sep \o mml_body.tpl \o <<"\n">>, After(mml_body))

\* MimeInterpreter::interpret_msg
MimeInterpreter_interpret_msg(show, body_interpreter, m, st, env) ==
    LET mml == HeaderBlock(show, m)
        sep == IF mml # <<>> THEN <<"\n">> ELSE <<>>
        mml_body == interpret_msg(body_interpreter, m, st, env)
    IN  IF ~mml_body.ok THEN mml_body
        ELSE Ok(mml \o sep \o TrimEnd(mml_body.tpl) \o <<"\n">>, After(mml_body))

\* ShowHeadersStrategy::contains
ShowHeadersContains(show, header) ==
    show.kind = "Only" /\ \E i \in DOMAIN show.headers : show.headers[i] = header

\* The fold of with_show_only_headers: the first occurrence of each name.
RECURSIVE DedupInto(_, _)
DedupInto(acc, headers) ==
    IF headers = <<>> THEN acc
    ELSE DedupInto(IF \E i \in DOMAIN acc : acc[i] = Head(headers)
                   THEN acc ELSE Append(acc, Head(headers)),
                   Tail(headers))

\* A fold that looks for repetitions among the new names only.
RECURSIVE NextHeadersAmongNew(_, _, _)
NextHeadersAmongNew(show, acc, headers) ==
    IF headers = <<>> THEN acc
    ELSE NextHeadersAmongNew(show,
                             IF \E i \in DOMAIN acc : acc[i] = Head(headers)
                             THEN acc ELSE Append(acc, Head(headers)),
                             Tail(headers))

\* The fold of with_show_additional_headers: the first occurrence of each
\* name the strategy does not hold yet.
RECURSIVE NextHeaders(_, _, _)
NextHeaders(show, acc, headers) ==
    IF headers = <<>> THEN acc
    ELSE NextHeaders(show,
                     IF \/ \E i \in DOMAIN acc : acc[i] = Head(headers)
                        \/ ShowHeadersContains(show, Head(headers))
                     THEN acc ELSE Append(acc, Head(headers)),
                     Tail(headers))

HeaderNames == {"Message-ID", "From", "Subject", "Cc"}

\* The lists of names a caller hands over, repetitions included.
RECURSIVE NameLists(_)
NameLists(n) ==
    IF n = 0 THEN {<<>>}
    ELSE LET shorter == NameLists(n - 1)
         IN  shorter \cup {Append(l, h) : l \in shorter, h \in HeaderNames}

\* The header sections of the outer messages: any of three headers, in any
\* order, each at most once; no message has a Cc.
OuterHeaders ==
    {Header("Message-ID", "id@localhost"), Header("From", "from@localhost"),
     Header("Subject", "subject")}

RECURSIVE HeaderSections(_)
HeaderSections(hs) ==
    {<<>>} \cup UNION {{<<h>> \o rest : rest \in HeaderSections(hs \ {h})} : h \in hs}

InnerHeaderSections ==
    {<<>>, <<Header("Subject", "inner")>>,
     <<Header("From", "inner@localhost"), Header("Subject", "inner")>>}

\* The message of a message/rfc822 part at id base.
EmbeddedMsg(headers, base) ==
    [parts |-> Relocate(InnerMsg, base).parts, headers |-> headers]

\* The text body of tests::mml_markup_escaped.
MarkupLeaf == TextLeaf(TextPlain, <<"<#part>", "Should be escaped.", "<#/part>">>)

\* A text; a nested message; a text and a nested message in a
\* multipart/mixed.
HeaderMessages ==
    {[parts |-> <<leaf>>, headers |-> hs] :
         leaf \in {PlainA, TextLeaf(TextPlain, <<" ", "\n">>),
                   TextLeaf(TextPlain, <<"\n", "a", "\n">>), MarkupLeaf},
         hs \in HeaderSections(OuterHeaders)}
    \cup {[parts |-> <<MessageLeaf(EmbeddedMsg(ih, 0))>>, headers |-> hs] :
             hs \in HeaderSections(OuterHeaders), ih \in InnerHeaderSections}
    \cup {[parts |-> <<[Container(MultipartMixed, <<1, 2>>) EXCEPT !.offset = 0],
                       [PlainA EXCEPT !.offset = 1],
                       [MessageLeaf(EmbeddedMsg(ih, 2)) EXCEPT !.offset = 2]>>,
           headers |-> hs] :
             hs \in HeaderSections(OuterHeaders), ih \in InnerHeaderSections}

\* MimeInterpreter::new
InitHeaders ==
    /\ interp = DefaultInterpreter
    /\ msg \in HeaderMessages
    /\ fs = NoFiles
    /\ result = NoResult
    /\ log = <<>>
    /\ pc = "with_show_headers"
    /\ world = QuietEnv
    /\ show_headers = ShowHeadersAll
    /\ calls = <<>>
    /\ retry = <<>>
    /\ range = <<>>

\* The position after a builder call: a chain started at "builder" takes
\* builder calls in any order and number; otherwise the calls follow the
\* order with_show_headers, with_show_additional_headers, interpret_msg.
AfterBuilder(next) == IF pc = "builder" THEN "builder" ELSE next

\* MimeInterpreter::with_show_headers
WithShowHeaders(s) ==
    /\ pc = "with_show_headers"
    /\ show_headers' = s
    /\ pc' = "with_show_additional_headers"
    /\ UNCHANGED <<interp, msg, fs, result, log, world, calls, retry, range>>

\* MimeInterpreter::with_show_all_headers
WithShowAllHeaders ==
    /\ pc \in {"with_show_headers", "builder"}
    /\ show_headers' = ShowHeadersAll
    /\ pc' = AfterBuilder("with_show_additional_headers")
    /\ UNCHANGED <<interp, msg, fs, result, log, world, calls, retry, range>>

\* The strategy with_show_only_headers stores: the fold keeps the first
\* occurrence of each name.
with_show_only_headers(headers) == ShowHeadersOnly(DedupInto(<<>>, headers))

\* MimeInterpreter::with_show_only_headers
WithShowOnlyHeaders(headers) ==
    /\ pc \in {"with_show_headers", "builder"}
    /\ show_headers' = with_show_only_headers(headers)
    /\ pc' = AfterBuilder("with_show_additional_headers")
    /\ UNCHANGED <<interp, msg, fs, result, log, world, calls, retry, range>>

\* MimeInterpreter::with_hide_all_headers
WithHideAllHeaders ==
    /\ pc \in {"with_show_headers", "builder"}
    /\ show_headers' = ShowHeadersOnly(<<>>)
    /\ pc' = AfterBuilder("with_show_additional_headers")
    /\ UNCHANGED <<interp, msg, fs, result, log, world, calls, retry, range>>

\* The strategy with_show_additional_headers stores when the current one is
\* show: All becomes Only of the new names, Only is extended by them.
with_show_additional_headers(show, headers) ==
    LET next_headers == NextHeaders(show, <<>>, headers)
    IN  IF show.kind = "All" THEN ShowHeadersOnly(next_headers)
        ELSE ShowHeadersOnly(show.headers \o next_headers)

\* MimeInterpreter::with_show_additional_headers
WithShowAdditionalHeaders(headers) ==
    /\ pc \in {"with_show_additional_headers", "builder"}
    /\ show_headers' = with_show_additional_headers(show_headers, headers)
    /\ pc' = AfterBuilder("interpret_msg")
    /\ UNCHANGED <<interp, msg, fs, result, log, world, calls, retry, range>>

\* MimeInterpreter::interpret_msg, called on the interpreter as built so far.
MimeInterpretMsg ==
    /\ pc \in {"with_show_headers", "with_show_additional_headers",
               "interpret_msg", "builder"}
    /\ \E r \in {MimeInterpreter_interpret_msg(show_headers, interp, msg,
                                               [fs |-> fs, log |-> <<>>], world)} :
           /\ result' = [ok |-> r.ok, tpl |-> r.tpl, err |-> r.err, path |-> r.path]
           /\ fs' = r.fs
           /\ log' = r.log
    /\ pc' = "done"
    /\ UNCHANGED <<interp, msg, world, show_headers, calls, retry, range>>

NextHeadersStep ==
    \/ \E l \in NameLists(MaxHeaders) :
           WithShowHeaders(ShowHeadersOnly(l)) \/ WithShowOnlyHeaders(l)
    \/ WithShowHeaders(ShowHeadersAll)
    \/ WithShowAllHeaders
    \/ WithHideAllHeaders
    \/ \E l \in NameLists(MaxHeaders - 1) : WithShowAdditionalHeaders(l)
    \/ MimeInterpretMsg

SpecHeaders == InitHeaders /\ [][NextHeadersStep]_vars

\* MimeInterpreter::new, followed by a chain of builder calls of any length
\* and order that leaves with_show_headers out, on the messages of one
\* plain text.
InitBuilders ==
    /\ interp = DefaultInterpreter
    /\ msg \in {m \in HeaderMessages : m.parts = <<PlainA>>}
    /\ fs = NoFiles
    /\ result = NoResult
    /\ log = <<>>
    /\ pc = "builder"
    /\ world = QuietEnv
    /\ show_headers = ShowHeadersAll
    /\ calls = <<>>
    /\ retry = <<>>
    /\ range = <<>>

NextBuilders ==
    \/ WithShowAllHeaders
    \/ WithHideAllHeaders
    \/ \E l \in NameLists(MaxHeaders) : WithShowOnlyHeaders(l)
    \/ \E l \in NameLists(MaxHeaders) : WithShowAdditionalHeaders(l)
    \/ MimeInterpretMsg

SpecBuilders == InitBuilders /\ [][NextBuilders]_vars

\* The concatenation of the sequences of a sequence.
RECURSIVE Flat(_)
Flat(seqs) == IF seqs = <<>> THEN <<>> ELSE Head(seqs) \o Flat(Tail(seqs))

\* The output for a header block and a body: the block, one blank line when
\* the block is not empty, the body without trailing whitespace, a newline.
Document(block, body) ==
    block \o (IF block = <<>> THEN <<>> ELSE <<"\n">>) \o Trimmed(body) \o <<"\n">>

\* The names of keys the message m has, each once, in the order of their
\* first occurrence in keys.
RequestedOnce(m, keys) ==
    SelectSeq(DedupInto(<<>>, keys),
              LAMBDA k : \E i \in DOMAIN m.headers : m.headers[i].name = k)

(* C17.  A message/rfc822 part is rendered as the embedded message would   *)
(* be rendered at top level, header block included: when the root part is  *)
(* a nested message, the body of the output is the whole document of the   *)
(* embedded message, its header block first.  The code renders the body    *)
(* of the embedded message only.                                           *)
C17_NestedMessageRendersHeaders ==
    (Done /\ Root.kind = "Message") =>
        /\ result.ok
        /\ result.tpl =
             Document(HeaderBlock(show_headers, msg),
                      Document(HeaderBlock(show_headers, Root.msg),
                               Rendering(Root.msg, Root.msg.parts[1])))

(* C20.  Under All the header block is one line per header of the message, *)
(* in the order of the message; under Only(list) it is one line for each   *)
(* name of the list the message has, in the order of the list, a name      *)
(* listed twice rendered once, a name the message lacks skipped.  The code *)
(* renders a name once per occurrence in the list of a strategy handed to  *)
(* with_show_headers.                                                      *)
C20_HeaderBlockFollowsPolicy ==
    Done =>
        /\ result.ok
        /\ result.tpl =
             Document(
                 IF show_headers.kind = "All"
                 THEN Flat([i \in DOMAIN msg.headers |->
                              HeaderLine(msg.headers[i].name, msg.headers[i].value)])
                 ELSE LET keys == RequestedOnce(msg, show_headers.headers)
                      IN  Flat([i \in DOMAIN keys |->
                                  HeaderLine(keys[i], MsgHeader(msg, keys[i])[1])]),
                 Rendering(msg, Root))

\* s ends with a newline that no other newline precedes.
EndsWithOneNewline(s) ==
    /\ s # <<>>
    /\ s[Len(s)] = "\n"
    /\ Len(s) > 1 => s[Len(s) - 1] # "\n"

Escaped(text) ==
    [i \in DOMAIN text |->
        CASE text[i] = "<#part>" -> "<#!part>"
          [] text[i] = "<#/part>" -> "<#!/part>"
          [] OTHER -> text[i]]

(* C22.  MML markup in the text of a message is escaped in the output: the *)
(* plain text "<#part>Should be escaped.<#/part>" is rendered as           *)
(* "<#!part>Should be escaped.<#!/part>", and the output of a message that *)
(* is one plain text holds no unescaped marker.  interpret_text_plain      *)
(* copies the text as it is.                                               *)
C22_MarkupInTextEscaped ==
    (Done /\ Root.kind = "Text" /\ is_plain(Root)) =>
        /\ result.ok
        /\ \A i \in DOMAIN result.tpl : result.tpl[i] \notin {"<#part>", "<#/part>"}
        /\ result.tpl = Document(HeaderBlock(show_headers, msg), Escaped(Root.text))

\* The call of the state made once more, on the file system the first
\* call left.
Again == interpret_msg(interp, msg, [fs |-> fs, log |-> <<>>], world)

\* What part renders to on its own, with the outcomes of the state.
RenderIn(part) == interpret_part(interp, msg, part, FreshSt, world)

---------------------------------------------------------------------------
(* Calls of interpret_msg running concurrently on one Interpreter.  Each   *)
(* call has its own message and its own output String; the file system is  *)
(* shared.  A call goes through its leaves in order; fs::write is          *)
(* File::create (the file is created or truncated) followed by write_all   *)
(* (the bytes are written from offset 0), and the steps of other calls may  *)
(* fall between the two.                                                   *)

ConcCalls == {1, 2}

\* Attachments: two of the same name and of different lengths, one of
\* another name.
LongAttachment == BinaryLeaf(OctetStream, Some("a.txt"), <<"y", "z">>)
OtherAttachment == BinaryLeaf(OctetStream, Some("b.txt"), <<"w">>)
ConcLeaves == {PlainA, NamedAttachment, LongAttachment, OtherAttachment}

\* One leaf, or a multipart/mixed over two leaves.
ConcMessages ==
    {[parts |-> <<l>>] : l \in ConcLeaves}
    \cup {[parts |-> <<[Container(MultipartMixed, <<1, 2>>) EXCEPT !.offset = 0],
                       [l1 EXCEPT !.offset = 1], [l2 EXCEPT !.offset = 2]>>] :
             l1 \in ConcLeaves, l2 \in ConcLeaves}

ConcFilters == {FilterAll, FilterExclude({TextPlain})}

\* A call that has not started: its message, the leaf it is at, whether it
\* holds a file it created and has not written yet, its output so far.
NewCall(m) ==
    [msg |-> m, at |-> 1, created |-> FALSE, tpl |-> <<>>,
     returned |-> FALSE, result |-> NoResult]

InitConc ==
    /\ interp = DefaultInterpreter
    /\ msg = EmptyMsg
    /\ fs = NoFiles
    /\ result = NoResult
    /\ log = <<>>
    /\ pc = "save_attachments"
    /\ world = QuietEnv
    /\ show_headers = ShowHeadersAll
    /\ calls \in [ConcCalls -> {NewCall(m) : m \in ConcMessages}]
    /\ retry = <<>>
    /\ range = <<>>

\* The leaf renderer calls of the call c, in the order interpret_part makes
\* them: the part, what the renderer returns, the path it writes to.
LeafCalls(c) == interpret_msg(interp, calls[c].msg, FreshSt, QuietEnv).log

\* File::create(path) gone wrong: a file that exists is not truncated.
FsCreateKeeping(files, path) ==
    [p \in DOMAIN files \cup {path} |->
        IF p = path /\ p \notin DOMAIN files THEN <<>> ELSE files[p]]

\* File::create(path): the file exists and is empty.
FsCreate(files, path) ==
    [p \in DOMAIN files \cup {path} |-> IF p = path THEN <<>> ELSE files[p]]

\* write_all(data) on a handle at offset 0: data replaces the first bytes of
\* the file, what lies beyond stays.
FsWriteAll(files, path, data) ==
    [files EXCEPT ![path] = data \o SubSeq(@, Len(data) + 1, Len(@))]

\* A leaf that writes no file: its rendering is pushed to the String of the
\* call.
RenderLeaf(c) ==
    /\ pc = "interpret"
    /\ ~calls[c].returned
    /\ calls[c].at <= Len(LeafCalls(c))
    /\ LeafCalls(c)[calls[c].at].wrote = NoPath
    /\ calls' = [calls EXCEPT ![c].tpl = @ \o LeafCalls(c)[calls[c].at].tpl,
                              ![c].at = @ + 1]
    /\ UNCHANGED <<interp, msg, fs, result, log, pc, world, show_headers, retry, range>>

\* fs::write, first half: File::create.
CreateFile(c) ==
    /\ pc = "interpret"
    /\ ~calls[c].returned
    /\ calls[c].at <= Len(LeafCalls(c))
    /\ LeafCalls(c)[calls[c].at].wrote # NoPath
    /\ ~calls[c].created
    /\ fs' = FsCreate(fs, LeafCalls(c)[calls[c].at].wrote)
    /\ calls' = [calls EXCEPT ![c].created = TRUE]
    /\ UNCHANGED <<interp, msg, result, log, pc, world, show_headers, retry, range>>

\* fs::write, second half: write_all; then the marker line is pushed.
WriteAll(c) ==
    /\ pc = "interpret"
    /\ ~calls[c].returned
    /\ calls[c].created
    /\ LET leaf == LeafCalls(c)[calls[c].at]
       IN  /\ fs' = FsWriteAll(fs, leaf.wrote, leaf.part.data)
           /\ log' = Append(log, [call |-> c, part |-> leaf.part, tpl |-> leaf.tpl,
                                  wrote |-> leaf.wrote])
           /\ calls' = [calls EXCEPT ![c].tpl = @ \o leaf.tpl,
                                     ![c].at = @ + 1,
                                     ![c].created = FALSE]
    /\ UNCHANGED <<interp, msg, result, pc, world, show_headers, retry, range>>

\* Ok(tpl): the call returns its String.
ReturnTpl(c) ==
    /\ pc = "interpret"
    /\ ~calls[c].returned
    /\ calls[c].at > Len(LeafCalls(c))
    /\ calls' = [calls EXCEPT ![c].returned = TRUE,
                              ![c].result = [ok |-> TRUE, tpl |-> calls[c].tpl,
                                             err |-> "", path |-> NoPath]]
    /\ UNCHANGED <<interp, msg, fs, result, log, pc, world, show_headers, retry, range>>

NextConc ==
    \/ \E b \in BOOLEAN : SaveAttachments(b)
    \/ \E f \in ConcFilters : FilterPartsSet(f)
    \/ \E c \in ConcCalls : RenderLeaf(c) \/ CreateFile(c) \/ WriteAll(c) \/ ReturnTpl(c)

SpecConc == InitConc /\ [][NextConc]_vars

\* Every concurrent call has returned.
AllReturned == \A c \in ConcCalls : calls[c].returned

\* The call c made alone, on an empty disk.
Alone(c) == interpret_msg(interp, calls[c].msg, FreshSt, QuietEnv)

\* The writes to path that have been completed, in the order of their
\* write_all.
WritesTo(path) == SelectSeq(log, LAMBDA w : w.wrote = path)

\* The bytes of the last write completed at path.
LastWritten(path) == WritesTo(path)[Len(WritesTo(path))].part.data

\* The calls that wrote to path.
WritersOf(path) == {WritesTo(path)[i].call : i \in DOMAIN WritesTo(path)}

(* C24.  Concurrent calls on one Interpreter do not touch each other's     *)
(* output: in every interleaving a call returns the document it returns    *)
(* when run alone.  They meet on the attachment directory only: the files  *)
(* on disk are those of the paths written; a path written by one call      *)
(* holds the bytes of the last part that call wrote there (a sibling of    *)
(* the same name overwrites); a path written by two calls is not guarded   *)
(* and holds the bytes of the last write, followed, when another write to  *)
(* the path was longer, possibly by the tail of that longer write.         *)
C24_ConcurrentCallsMeetOnFilesOnly ==
    /\ pc = "interpret" =>
           \A c \in ConcCalls :
               /\ IsPrefix(calls[c].tpl, Alone(c).tpl)
               /\ calls[c].returned =>
                      calls[c].result.ok /\ calls[c].result.tpl = Alone(c).tpl
    /\ (pc = "interpret" /\ AllReturned) =>
           /\ DOMAIN fs = UNION {DOMAIN Alone(c).fs : c \in ConcCalls}
           /\ \A path \in DOMAIN fs :
                  /\ IsPrefix(LastWritten(path), fs[path])
                  /\ fs[path] # LastWritten(path) =>
                         \E i \in DOMAIN WritesTo(path) :
                             LET d == WritesTo(path)[i].part.data
                             IN  /\ Len(d) > Len(LastWritten(path))
                                 /\ fs[path] = LastWritten(path)
                                        \o SubSeq(d, Len(LastWritten(path)) + 1, Len(d))
                  /\ Cardinality(WritersOf(path)) = 1 => fs[path] = LastWritten(path)

\* Two calls, each on one attachment named a.txt, have returned; the file
\* holds the bytes of the write that came last.
C24_Witness ==
    /\ pc = "interpret" /\ AllReturned
    /\ calls[1].msg.parts = <<NamedAttachment>>
    /\ calls[2].msg.parts = <<LongAttachment>>
    /\ calls[1].result.tpl = Alone(1).tpl
    /\ calls[2].result.tpl = Alone(2).tpl
    /\ WritersOf(<<TmpDir, "/", "a.txt">>) = {1, 2}
    /\ fs[<<TmpDir, "/", "a.txt">>] = <<"y", "z">>
    /\ LastWritten(<<TmpDir, "/", "a.txt">>) = <<"y", "z">>

\* C24 as stated: after the calls, a file holds the bytes of whichever write
\* to its path happened last.  When both calls have created the file before
\* either writes, the shorter write that comes last leaves the tail of the
\* longer one in the file.
C24_FileHoldsLastWrite ==
    (pc = "interpret" /\ AllReturned) =>
        \A path \in DOMAIN fs : fs[path] = LastWritten(path)

---------------------------------------------------------------------------
(* build_page_range (email/src/email/envelope/list/imap.rs): the IMAP      *)
(* sequence set of a page.  usize is UsizeBits wide; an arithmetic         *)
(* overflow panics in a build with overflow checks and wraps in a build    *)
(* without.                                                                *)

\* Width of usize in the model.
UsizeBits == 4

UsizeCount == 2 ^ UsizeBits
Usize == 0..(UsizeCount - 1)

\* The result of a usize operation whose exact value is n: "panic" is the
\* abort of "attempt to multiply/add with overflow".
UsizeOp(n, checked) ==
    IF n \in Usize THEN [panic |-> FALSE, val |-> n]
    ELSE IF checked THEN [panic |-> TRUE, val |-> 0]
    ELSE [panic |-> FALSE, val |-> n % UsizeCount]

Digits == <<"0", "1", "2", "3", "4", "5", "6", "7", "8", "9">>

\* usize::to_string
RECURSIVE to_string(_)
to_string(n) ==
    IF n < 10 THEN <<Digits[n + 1]>>
    ELSE to_string(n \div 10) \o <<Digits[(n % 10) + 1]>>

Min(a, b) == IF a <= b THEN a ELSE b

\* The while loop of build_page_range.
RECURSIVE PageRangeLoop(_, _, _, _)
PageRangeLoop(cursor, count, str, page_size) ==
    IF cursor > 1 /\ count < page_size
    THEN PageRangeLoop(cursor - 1, count + 1,
                       str \o (IF count + 1 > 1 THEN <<",">> ELSE <<>>)
                           \o to_string(cursor - 1),
                       page_size)
    ELSE str

RangePanic == [kind |-> "panic", str |-> <<>>, page |-> 0]
RangeOk(str) == [kind |-> "Ok", str |-> str, page |-> 0]
\* Error::BuildPageRangeOutOfBoundsError(page)
RangeErr(page) == [kind |-> "BuildPageRangeOutOfBoundsError", str |-> <<>>, page |-> page]
NoRange == [kind |-> "none", str |-> <<>>, page |-> 0]

\* build_page_range(page, page_size, size), in a build with (checked) or
\* without overflow checks.
build_page_range(page, page_size, size, checked) ==
    LET page_cursor == UsizeOp(page * page_size, checked)
    IN  IF page_cursor.panic THEN RangePanic
        ELSE IF page_cursor.val >= size
        THEN LET next == UsizeOp(page + 1, checked)
             IN  IF next.panic THEN RangePanic ELSE RangeErr(next.val)
        ELSE IF page_size = 0 THEN RangeOk(<<"1:*">>)
        ELSE LET cursor == size - Min(size, page_cursor.val)
             IN  RangeOk(PageRangeLoop(cursor, 1, to_string(cursor), Min(page_size, size)))

InitRange ==
    /\ interp = DefaultInterpreter
    /\ msg = EmptyMsg
    /\ fs = NoFiles
    /\ result = NoResult
    /\ log = <<>>
    /\ pc = "build_page_range"
    /\ world = QuietEnv
    /\ show_headers = ShowHeadersAll
    /\ calls = <<>>
    /\ retry = <<>>
    /\ range \in {[page |-> p, page_size |-> ps, size |-> sz, checked |-> FALSE,
                   out |-> NoRange] : p \in Usize, ps \in Usize, sz \in Usize}

\* One call of build_page_range, by a build with or without overflow
\* checks.
BuildPageRange(checked) ==
    /\ pc = "build_page_range"
    /\ range' = [range EXCEPT
                    !.checked = checked,
                    !.out = build_page_range(range.page, range.page_size,
                                             range.size, checked)]
    /\ pc' = "done"
    /\ UNCHANGED <<interp, msg, fs, result, log, world, show_headers, calls, retry>>

NextRange == \E checked \in BOOLEAN : BuildPageRange(checked)

SpecRange == InitRange /\ [][NextRange]_vars

\* start, start - 1, ..., n numbers in all, separated by commas.
RECURSIVE DescendingRun(_, _)
DescendingRun(start, n) ==
    IF n <= 1 THEN to_string(start)
    ELSE to_string(start) \o <<",">> \o DescendingRun(start - 1, n - 1)

(* C25.  build_page_range(page, page_size, size) returns the out-of-bounds *)
(* error carrying page + 1 whenever page * page_size >= size; otherwise    *)
(* "1:*" when page_size is 0, and else the comma-separated descending run  *)
(* of consecutive numbers that starts at size - page * page_size and has   *)
(* min(page_size, size - page * page_size) entries.  When page * page_size *)
(* or page + 1 overflows usize the call panics, or computes with the       *)
(* wrapped value.                                                          *)
C25_PageRange ==
    Done =>
        range.out =
            IF range.page * range.page_size >= range.size
            THEN RangeErr(range.page + 1)
            ELSE IF range.page_size = 0 THEN RangeOk(<<"1:*">>)
            ELSE RangeOk(DescendingRun(
                     range.size - range.page * range.page_size,
                     Min(range.page_size,
                         range.size - range.page * range.page_size)))

---------------------------------------------------------------------------
\* The files the leaves of entries wrote, the later write to a path over the
\* earlier one.
RECURSIVE FilesOf(_, _)
FilesOf(files, entries) ==
    IF entries = <<>> THEN files
    ELSE FilesOf(IF Head(entries).wrote = NoPath THEN files
                 ELSE FsWrite(files, Head(entries).wrote, Head(entries).part.data),
                 Tail(entries))

(* C26.  A failed attachment write ends the call with the write error and  *)
(* the destination path of the failing part, and with no document.  The    *)
(* files written for the earlier parts stay on disk as written, and no     *)
(* later part is written: the disk holds the files of the leaves rendered  *)
(* before the failure and nothing else.                                    *)
C26_WriteFailureKeepsEarlierFiles ==
    (Done /\ result.err = "WriteAttachmentError") =>
        /\ ~result.ok
        /\ result.tpl = <<>>
        /\ result.path \in world.bad
        /\ Len(log) < Len(Unfailing.log)
        /\ IsPrefix(log, Unfailing.log)
        /\ Unfailing.log[Len(log) + 1].wrote = result.path
        /\ fs = FilesOf(NoFiles, log)
        /\ \A i \in (Len(log) + 1)..Len(Unfailing.log) :
               LET p == Unfailing.log[i].wrote
               IN  (p # NoPath /\ \A j \in DOMAIN log : log[j].wrote # p) =>
                       p \notin DOMAIN fs

\* The write of the second of three attachments fails: the file of the first
\* is on disk, the third was not written.
C26_Witness ==
    /\ Done
    /\ result.err = "WriteAttachmentError"
    /\ Len(log) >= 1
    /\ fs # NoFiles
    /\ log[1].wrote \in DOMAIN fs
    /\ fs[log[1].wrote] = log[1].part.data
    /\ result.path \notin DOMAIN fs
    /\ msg = ThreeAttachments
    /\ Len(log) = 1
    /\ Len(Unfailing.log) = 3
    /\ Unfailing.log[Len(log) + 2].wrote # NoPath
    /\ Unfailing.log[Len(log) + 2].wrote \notin DOMAIN fs

\* enum Error
TypedErrorKinds ==
    {"ParseRawEmailError", "WriteAttachmentError", "WriteMessageError",
     "DecryptPartError", "VerifyPartError"}

(* C27.  Every call ends by returning a document or a typed error, for     *)
(* every part tree: a multipart/encrypted or multipart/signed node with    *)
(* fewer than two resolvable children, and a decrypted payload that is no  *)
(* message, give an error value.  The code indexes ids[1] and unwraps      *)
(* msg.part(..) and Message::parse(..): these cases abort the program.     *)
C27_EveryCallReturns ==
    Done => (result.ok \/ result.err \in TypedErrorKinds)

---------------------------------------------------------------------------
(* retry! (email/src/imap/mod.rs): an IMAP operation of ImapContext runs   *)
(* its task, and once more after a stream error and a rebuilt client.      *)
(* The outcome of a task and of client_builder.build() is the server's and *)
(* the network's: any of them, at each attempt.                            *)

\* Largest number of operations run on one ImapContext.
MaxOps == 3

\* The operations: create_mailbox(mbox) and list_all_mailboxes, with the
\* error constructor each hands to retry!.
ImapOps ==
    {[name |-> "create_mailbox", mbox |-> m, err |-> "CreateMailboxError"] :
         m \in {"INBOX", "a\\0b"}}
    \cup {[name |-> "list_all_mailboxes", mbox |-> "", err |-> "ListMailboxesError"]}

\* Mailbox::try_from(mbox.to_string()) fails on a name that is no mailbox.
MailboxParses(mbox) == mbox # "a\\0b"

\* What a task returns: Ok(output), Err(ClientError::Stream(_)), or
\* Err of another ClientError.
TaskOutcomes == {"Ok", "Stream", "Other"}

\* The arm of the match of retry! taken for the outcome of the task:
\* "break" returns from the loop, "rebuild" is the arm of a stream error.
RetryArmAlways(retried, outcome) ==
    CASE outcome = "Stream" -> "rebuild"
      [] outcome = "Ok" -> "break_ok"
      [] OTHER -> "break_err"

RetryArm(retried, outcome) ==
    CASE outcome # "Ok" /\ retried -> "break_err"
      [] outcome = "Stream" -> "rebuild"
      [] outcome # "Ok" -> "break_err"
      [] OTHER -> "break_ok"

\* No operation is running on the context; client counts the clients built.
IdleContext(client, ops) ==
    [at |-> "idle", op |-> <<>>, retried |-> FALSE, attempts |-> 0,
     trace |-> <<>>, returned |-> <<>>, client |-> client, ops |-> ops]

InitRetry ==
    /\ interp = DefaultInterpreter
    /\ msg = EmptyMsg
    /\ fs = NoFiles
    /\ result = NoResult
    /\ log = <<>>
    /\ pc = "imap"
    /\ world = QuietEnv
    /\ show_headers = ShowHeadersAll
    /\ calls = <<>>
    /\ range = <<>>
    /\ retry = IdleContext(0, 0)

\* An operation is called: ImapContext::create_mailbox parses the name
\* first and returns at once when it is no mailbox; then `let mut retried =
\* false; loop {`.
CallOp(op) ==
    /\ retry.at \in {"idle", "returned"}
    /\ retry.ops < MaxOps
    /\ retry' =
         IF op.name = "create_mailbox" /\ ~MailboxParses(op.mbox)
         THEN [IdleContext(retry.client, retry.ops + 1) EXCEPT
                  !.at = "returned", !.op = <<op>>,
                  !.returned = <<[ok |-> FALSE, kind |-> "ParseMailboxError",
                                  source |-> op.mbox]>>]
         ELSE [IdleContext(retry.client, retry.ops + 1) EXCEPT
                  !.at = "task", !.op = <<op>>]
    /\ UNCHANGED <<interp, msg, fs, result, log, pc, world, show_headers, calls, range>>

\* match $task { .. }: the task runs on the current client and the arm for
\* its outcome is taken.
RunTask(outcome) ==
    /\ retry.at = "task"
    /\ LET arm == RetryArm(retry.retried, outcome)
           ran == [retry EXCEPT !.attempts = @ + 1,
                                !.trace = Append(@, [task |-> outcome,
                                                     client |-> retry.client])]
       IN  retry' =
             CASE arm = "break_ok" ->
                    [ran EXCEPT !.at = "returned",
                                !.returned = <<[ok |-> TRUE, kind |-> "output",
                                                source |-> "Ok"]>>]
               [] arm = "break_err" ->
                    [ran EXCEPT !.at = "returned",
                                !.returned = <<[ok |-> FALSE, kind |-> retry.op[1].err,
                                                source |-> outcome]>>]
               [] OTHER -> [ran EXCEPT !.at = "build"]
    /\ UNCHANGED <<interp, msg, fs, result, log, pc, world, show_headers, calls, range>>

\* $self.client = $self.client_builder.build().await?; retried = true;
\* continue;
BuildClient(built) ==
    /\ retry.at = "build"
    /\ retry' =
         IF built
         THEN [retry EXCEPT !.client = @ + 1, !.retried = TRUE, !.at = "task",
                            !.trace = Append(@, [task |-> "build", client |-> retry.client + 1])]
         ELSE [retry EXCEPT !.at = "returned",
                            !.trace = Append(@, [task |-> "build_failed",
                                                 client |-> retry.client]),
                            !.returned = <<[ok |-> FALSE, kind |-> "BuildClientError",
                                            source |-> "build"]>>]
    /\ UNCHANGED <<interp, msg, fs, result, log, pc, world, show_headers, calls, range>>

NextRetry ==
    \/ \E op \in ImapOps : CallOp(op)
    \/ \E outcome \in TaskOutcomes : RunTask(outcome)
    \/ \E built \in BOOLEAN : BuildClient(built)

SpecRetry == InitRetry /\ [][NextRetry]_vars

\* What happened in the operation, step by step.
Steps == [i \in DOMAIN retry.trace |-> retry.trace[i].task]

(* C28.  An operation under retry! runs its task at most twice.  A second  *)
(* attempt follows only a first attempt that failed with a stream error    *)
(* and a client that was rebuilt, and runs on the new client.  A success   *)
(* returns the output at once; an error other than a stream error at the   *)
(* first attempt, any error at the second attempt and a failed rebuild are *)
(* returned without another attempt, the task errors wrapped by the        *)
(* operation's constructor.                                                *)
C28_RetryAtMostOnce ==
    pc = "imap" =>
        /\ retry.attempts <= 2
        /\ retry.attempts = Cardinality({i \in DOMAIN Steps :
                                            Steps[i] \in TaskOutcomes})
        /\ retry.attempts = 2 =>
               /\ SubSeq(Steps, 1, 2) = <<"Stream", "build">>
               /\ retry.trace[3].client = retry.trace[1].client + 1
        /\ (retry.at = "returned" /\ retry.returned[1].kind # "ParseMailboxError") =>
               \/ /\ Steps \in {<<"Ok">>, <<"Stream", "build", "Ok">>}
                  /\ retry.returned = <<[ok |-> TRUE, kind |-> "output", source |-> "Ok"]>>
               \/ /\ Steps \in {<<"Other">>, <<"Stream", "build", "Other">>,
                                <<"Stream", "build", "Stream">>}
                  /\ retry.returned = <<[ok |-> FALSE, kind |-> retry.op[1].err,
                                         source |-> Steps[Len(Steps)]]>>
               \/ /\ Steps = <<"Stream", "build_failed">>
                  /\ retry.returned = <<[ok |-> FALSE, kind |-> "BuildClientError",
                                         source |-> "build"]>>
        /\ (retry.at = "returned" /\ retry.returned[1].kind = "ParseMailboxError") =>
               Steps = <<>>

\* A stream error at the first attempt, a rebuilt client, a stream error
\* again: returned, after two attempts.
C28_Witness ==
    /\ pc = "imap"
    /\ retry.at = "returned"
    /\ retry.attempts = 2
    /\ Steps = <<"Stream", "build", "Stream">>
    /\ retry.returned = <<[ok |-> FALSE, kind |-> "CreateMailboxError",
                           source |-> "Stream"]>>

---------------------------------------------------------------------------
\* No element of the sequence occurs twice.
NoRepeat(seq) == \A i, j \in DOMAIN seq : seq[i] = seq[j] => i = j

\* The elements of the sequence at their first occurrence, in order.
RECURSIVE FirstOccurrences(_)
FirstOccurrences(seq) ==
    IF seq = <<>> THEN <<>>
    ELSE LET front == FirstOccurrences(SubSeq(seq, 1, Len(seq) - 1))
             last == seq[Len(seq)]
         IN  IF \E i \in 1..(Len(seq) - 1) : seq[i] = last
             THEN front ELSE Append(front, last)

\* The names of an Only strategy; none for All.
Held(show) == IF show.kind = "Only" THEN show.headers ELSE <<>>

(* C29.  Along a chain of with_show_all_headers, with_hide_all_headers,    *)
(* with_show_only_headers and with_show_additional_headers calls, an Only  *)
(* list holds no name twice; with_show_only_headers stores the names it is *)
(* given in the order of their first occurrence; and                       *)
(* with_show_additional_headers, whatever names it is given, keeps the     *)
(* names already held where they are and appends the new ones, each once,  *)
(* in the order of their first occurrence.                                 *)
C29_OnlyListKeepsFirstInsertions ==
    /\ NoRepeat(Held(show_headers))
    /\ \A l \in NameLists(MaxHeaders) :
           /\ with_show_only_headers(l) = ShowHeadersOnly(FirstOccurrences(l))
           /\ LET after == with_show_additional_headers(show_headers, l)
                  held == Held(show_headers)
                  new == SelectSeq(FirstOccurrences(l),
                                   LAMBDA n : \A i \in DOMAIN held : held[i] # n)
              IN  /\ after = ShowHeadersOnly(held \o new)
                  /\ NoRepeat(after.headers)

\* A chain has built an Only list of two names or more, and a next
\* with_show_additional_headers call can name one of them again together
\* with a new name.
C29_Witness ==
    /\ pc = "builder"
    /\ show_headers.kind = "Only"
    /\ Len(show_headers.headers) >= 2
    /\ \E l \in NameLists(MaxHeaders) :
           /\ \E i \in DOMAIN l : ShowHeadersContains(show_headers, l[i])
           /\ with_show_additional_headers(show_headers, l) # show_headers

---------------------------------------------------------------------------
\* The call of the state made with show_plain_texts_signature the other way.
OtherWay ==
    interpret_msg([interp EXCEPT !.show_plain_texts_signature = ~@], msg,
                  FreshSt, world)

\* The parts the leaf renderers were called on, in the order of the calls.
PartsOf(entries) == [i \in DOMAIN entries |-> entries[i].part]

\* The children of the root with a plain text that is not blank as it is in
\* the message.
PlainWithText ==
    {i \in DOMAIN Kids(msg, Root) :
        IsPlainLeaf(Kids(msg, Root)[i]) /\ HasText(Kids(msg, Root)[i].text)}

(* C30.  Under All the branch of a multipart/alternative does not depend   *)
(* on show_plain_texts_signature.  The call made with the option the other *)
(* way renders the same child; when a plain child has text before the      *)
(* signature is cut off, the first such child is the one rendered, even    *)
(* when only blank lines are left of it; and when the child rendered is    *)
(* not a plain text the two outputs are the same.                          *)
C30_StrippingKeepsBranch ==
    (Done /\ Filter.kind = "All" /\ IsAlternative(Root)) =>
        /\ OtherWay.ok = result.ok
        /\ PartsOf(OtherWay.log) = PartsOf(log)
        /\ PlainWithText # {} =>
               LET chosen == Kids(msg, Root)[MinOf(PlainWithText)]
               IN  /\ PartsOf(log) = <<chosen>>
                   /\ result.tpl =
                          TrimEnd(IF interp.show_plain_texts_signature
                                  THEN RemoveCR(chosen.text)
                                  ELSE RSplitOnceBody(RemoveCR(chosen.text),
                                                      SignatureDelim))
                              \o <<"\n", "\n">>
        /\ PlainWithText = {} => OtherWay.tpl = result.tpl

\* Signatures are cut off, the first child of the root is a plain text that
\* is a signature only, the second an HTML part with content; the call
\* rendered the plain child, as two blank lines.
C30_Witness ==
    /\ Done /\ result.ok /\ Filter.kind = "All" /\ IsAlternative(Root)
    /\ ~interp.show_plain_texts_signature
    /\ Len(Kids(msg, Root)) = 2
    /\ Kids(msg, Root)[1].text = SignatureDelim \o <<"s">>
    /\ IsPlainLeaf(Kids(msg, Root)[1])
    /\ Kids(msg, Root)[2].kind = "Html" /\ HasText(Kids(msg, Root)[2].text)
    /\ PartsOf(log) = <<Kids(msg, Root)[1]>>
    /\ result.tpl = <<"\n", "\n">>
    /\ OtherWay.tpl = SignatureDelim \o <<"s", "\n", "\n">>

=============================================================================
